---- MODULE Spec2Model ----
(***************************************************************************)
(* A model of the API-X client request (ApiXRequest): its three header     *)
(* tiers, its cookie store, the one-shot send path make() with its two     *)
(* suspension points (fetch, response.json()), the key store it reads and  *)
(* the classification of server error payloads.                            *)
(*                                                                         *)
(* Strings are sequences of one-character strings wherever the code looks  *)
(* inside them (header names: trim, toLowerCase); strings the code only    *)
(* copies or concatenates may hold longer tokens.                          *)
(***************************************************************************)
EXTENDS Integers, Sequences, FiniteSets, TLC

\* ------------------------------------------------------------------ bounds

\* fetch is called at most this many times (the code calls it once; the
\* bound keeps a model that calls it again finite).
MaxFetchCalls == 2

\* The wall clock is read at most this many ticks after construction.
MaxClock == 1

\* ----------------------------------------------------------------- strings

UpperCase == <<"A","B","C","D","E","F","G","H","I","J","K","L","M","N","O","P","Q","R","S","T","U","V","W","X","Y","Z">>

LowerCase == <<"a","b","c","d","e","f","g","h","i","j","k","l","m","n","o","p","q","r","s","t","u","v","w","x","y","z">>

\* The characters String.prototype.trim removes (those the inputs use).
WhiteSpace == {" ", "\t", "\n", "\r"}

\* The lower-case letter of every upper-case letter.
LowerOf ==
  [c \in { UpperCase[i] : i \in 1..Len(UpperCase) } |->
     LowerCase[CHOOSE i \in 1..Len(UpperCase) : UpperCase[i] = c]]

\* One character of String.prototype.toLowerCase.
LowerChar(c) == IF c \in DOMAIN LowerOf THEN LowerOf[c] ELSE c

ToLowerCase(s) == [i \in 1..Len(s) |-> LowerChar(s[i])]

RECURSIVE TrimStart(_)
TrimStart(s) ==
  IF s # <<>> /\ Head(s) \in WhiteSpace THEN TrimStart(Tail(s)) ELSE s

RECURSIVE TrimEnd(_)
TrimEnd(s) ==
  IF s # <<>> /\ s[Len(s)] \in WhiteSpace
  THEN TrimEnd(SubSeq(s, 1, Len(s) - 1))
  ELSE s

Trim(s) == TrimEnd(TrimStart(s))

\* A mutant of headerName: the name is trimmed but its case is kept.
headerNameCaseSensitive(name) == Trim(name)

\* headerName: name.trim().toLowerCase()
headerName(name) == ToLowerCase(Trim(name))

\* The value JavaScript calls undefined; no string is equal to it.
Undefined == <<"<undefined>">>

\* ------------------------------------------------------------ header names

\* enum ProtectedHeaders
ProtectedHeaders == {
  <<"X","-","S","i","g","n","a","t","u","r","e">>,
  <<"X","-","S","i","g","n","a","t","u","r","e","-","N","o","n","c","e">>,
  <<"X","-","A","P","I","-","K","e","y">> }

HdrSignature == <<"X","-","S","i","g","n","a","t","u","r","e">>

HdrSignatureNonce == <<"X","-","S","i","g","n","a","t","u","r","e","-","N","o","n","c","e">>

HdrApiKey == <<"X","-","A","P","I","-","K","e","y">>

\* enum ReadOnlyHeaders
ReadOnlyHeaders == {
  <<"C","o","n","t","e","n","t","-","T","y","p","e">>,
  <<"D","a","t","e">> }

HdrContentType == <<"C","o","n","t","e","n","t","-","T","y","p","e">>

HdrDate == <<"D","a","t","e">>

\* ApiXRequestHeaders.Cookie: the key of the aggregate cookie header.
HdrCookie == <<"C","o","o","k","i","e">>

ApplicationJson == <<"application/json">>

\* Object.values(ProtectedHeaders).map(header => this.headerName(header))
protectedHeaderNames == { headerName(h) : h \in ProtectedHeaders }

\* Object.values(ReadOnlyHeaders).map(header => this.headerName(header))
readOnlyHeaderNames == { headerName(h) : h \in ReadOnlyHeaders }

\* A mutant of isProtectedHeader: the API key header is not on the list.
isProtectedHeaderNoApiKey(name) ==
  headerName(name) \in protectedHeaderNames \ {headerName(HdrApiKey)}

isProtectedHeader(name) == headerName(name) \in protectedHeaderNames

\* A mutant of isReadOnlyHeader: only Content-Type is write-protected.
isReadOnlyHeaderNoDate(name) ==
  headerName(name) \in readOnlyHeaderNames \ {headerName(HdrDate)}

isReadOnlyHeader(name) == headerName(name) \in readOnlyHeaderNames

\* --------------------------------------------------------- JavaScript maps

\* A Record<string, string> whose property order does not matter here: a
\* function from the keys that are set to their values.
EmptyRecord == << >>

\* record[key] = value
Put(record, key, value) ==
  [k \in (DOMAIN record) \cup {key} |-> IF k = key THEN value ELSE record[k]]

\* delete record[key]
Delete(record, key) ==
  [k \in (DOMAIN record) \ {key} |-> record[k]]

\* record[key], undefined when the key is not set
Get(record, key) ==
  IF key \in DOMAIN record THEN record[key] ELSE Undefined

\* { ...a, ...b }: b's entries win
Spread(a, b) ==
  [k \in (DOMAIN a) \cup (DOMAIN b) |-> IF k \in DOMAIN b THEN b[k] ELSE a[k]]

\* -------------------------------------------------------------------- JSON

\* An ApiXJsonObject and the values in it.  t is the JavaScript type,
\* s the characters of a string (or the literal of a number, true, false),
\* m the members of an object (in insertion order, each [k, v]) or the
\* elements of an array.
JsonUndefined == [t |-> "undefined", s |-> <<>>, m |-> <<>>]

JsonNull == [t |-> "null", s |-> <<>>, m |-> <<>>]

JsonString(chars) == [t |-> "string", s |-> chars, m |-> <<>>]

JsonObject(members) == [t |-> "object", s |-> <<>>, m |-> members]

JsonArray(elements) == [t |-> "array", s |-> <<>>, m |-> elements]

Member(key, value) == [k |-> key, v |-> value]

\* The printable ASCII characters, Ascii[i] having char code 31 + i (the
\* grave accent, code 96, is written as a token).
Ascii == <<
  " ","!","\"","#","$","%","&","'","(",")","*","+",",","-",".","/",
  "0","1","2","3","4","5","6","7","8","9",":",";","<","=",">","?",
  "@","A","B","C","D","E","F","G","H","I","J","K","L","M","N","O",
  "P","Q","R","S","T","U","V","W","X","Y","Z","[","\\","]","^","_",
  "<grave>","a","b","c","d","e","f","g","h","i","j","k","l","m","n","o",
  "p","q","r","s","t","u","v","w","x","y","z","{","|","}","~" >>

\* Characters beyond ASCII, each written as a token, with their UTF-16 code
\* units: e with acute accent, the ligature oe, and the hiragana KO and N.
NonAscii == <<
  [c |-> "<U+00E9>", code |-> 233],
  [c |-> "<U+0153>", code |-> 339],
  [c |-> "<U+3053>", code |-> 12371],
  [c |-> "<U+3093>", code |-> 12435] >>

\* The UTF-16 code unit of every character.
CodeOf ==
  [c \in { Ascii[i] : i \in 1..Len(Ascii) } \cup { NonAscii[i].c : i \in 1..Len(NonAscii) } |->
     IF \E i \in 1..Len(Ascii) : Ascii[i] = c
     THEN 31 + (CHOOSE i \in 1..Len(Ascii) : Ascii[i] = c)
     ELSE NonAscii[CHOOSE i \in 1..Len(NonAscii) : NonAscii[i].c = c].code]

\* The UTF-16 code unit of a character.
CharCode(c) == CodeOf[c]

\* a < b as Array.prototype.sort orders strings: by code units, a proper
\* prefix first.
RECURSIVE StringLess(_, _)
StringLess(a, b) ==
  IF b = <<>> THEN FALSE
  ELSE IF a = <<>> THEN TRUE
  ELSE IF Head(a) = Head(b) THEN StringLess(Tail(a), Tail(b))
  ELSE CharCode(Head(a)) < CharCode(Head(b))

\* Object.keys(obj).sort() applied to the members: insertion of one member
\* into members already sorted by key.
RECURSIVE InsertSorted(_, _)
InsertSorted(member, sorted) ==
  IF sorted = <<>> THEN <<member>>
  ELSE IF StringLess(member.k, Head(sorted).k) THEN <<member>> \o sorted
  ELSE <<Head(sorted)>> \o InsertSorted(member, Tail(sorted))

RECURSIVE SortMembers(_)
SortMembers(members) ==
  IF members = <<>> THEN <<>>
  ELSE InsertSorted(Head(members), SortMembers(Tail(members)))

\* sortedObjectKeys: the keys of obj sorted, recursively for every value
\* that is a non-null object and not an array; arrays and the objects
\* inside them are copied as they are.
RECURSIVE sortedObjectKeys(_)
sortedObjectKeys(obj) ==
  LET sortedMembers == SortMembers(obj.m)
  IN JsonObject([i \in 1..Len(sortedMembers) |->
       Member(sortedMembers[i].k,
              IF sortedMembers[i].v.t = "object"
              THEN sortedObjectKeys(sortedMembers[i].v)
              ELSE sortedMembers[i].v)])

\* JSON.stringify of a string: quoted, with " and \ escaped.
RECURSIVE QuoteChars(_)
QuoteChars(chars) ==
  IF chars = <<>> THEN <<>>
  ELSE (IF Head(chars) \in {"\"", "\\"} THEN <<"\\", Head(chars)>> ELSE <<Head(chars)>>)
       \o QuoteChars(Tail(chars))

Quote(chars) == <<"\"">> \o QuoteChars(chars) \o <<"\"">>

\* JSON.stringify of a JSON value, without indentation.
RECURSIVE JsonStringify(_)
RECURSIVE StringifyMembers(_)
RECURSIVE StringifyElements(_)
StringifyMembers(members) ==
  IF members = <<>> THEN <<>>
  ELSE Quote(Head(members).k) \o <<":">> \o JsonStringify(Head(members).v)
       \o (IF Len(members) > 1 THEN <<",">> ELSE <<>>)
       \o StringifyMembers(Tail(members))

StringifyElements(elements) ==
  IF elements = <<>> THEN <<>>
  ELSE JsonStringify(Head(elements))
       \o (IF Len(elements) > 1 THEN <<",">> ELSE <<>>)
       \o StringifyElements(Tail(elements))

JsonStringify(value) ==
  CASE value.t = "object" -> <<"{">> \o StringifyMembers(value.m) \o <<"}">>
    [] value.t = "array" -> <<"[">> \o StringifyElements(value.m) \o <<"]">>
    [] value.t = "string" -> Quote(value.s)
    [] value.t = "null" -> <<"n","u","l","l">>
    [] OTHER -> value.s

\* ------------------------------------------------------------------ base64

Base64Alphabet == <<
  "A","B","C","D","E","F","G","H","I","J","K","L","M","N","O","P",
  "Q","R","S","T","U","V","W","X","Y","Z","a","b","c","d","e","f",
  "g","h","i","j","k","l","m","n","o","p","q","r","s","t","u","v",
  "w","x","y","z","0","1","2","3","4","5","6","7","8","9","+","/" >>

B64(n) == Base64Alphabet[n + 1]

\* Buffer.from(string, 'binary'): one byte per code unit, its low 8 bits.
BinaryBytes(chars) == [i \in 1..Len(chars) |-> CharCode(chars[i]) % 256]

\* Buffer.prototype.toString('base64')
RECURSIVE Base64(_)
Base64(bytes) ==
  IF bytes = <<>> THEN <<>>
  ELSE IF Len(bytes) = 1 THEN
    <<B64(bytes[1] \div 4), B64((bytes[1] % 4) * 16), "=", "=">>
  ELSE IF Len(bytes) = 2 THEN
    <<B64(bytes[1] \div 4),
      B64((bytes[1] % 4) * 16 + bytes[2] \div 16),
      B64((bytes[2] % 16) * 4), "=">>
  ELSE
    <<B64(bytes[1] \div 4),
      B64((bytes[1] % 4) * 16 + bytes[2] \div 16),
      B64((bytes[2] % 16) * 4 + bytes[3] \div 64),
      B64(bytes[3] % 64)>> \o Base64(SubSeq(bytes, 4, Len(bytes)))

\* Buffer.from(string, 'utf-8'): the UTF-8 bytes of each code unit (none of
\* the characters here is a surrogate).
RECURSIVE Utf8Bytes(_)
Utf8Bytes(chars) ==
  IF chars = <<>> THEN <<>>
  ELSE LET code == CharCode(Head(chars))
       IN (IF code < 128 THEN <<code>>
           ELSE IF code < 2048
           THEN <<192 + (code \div 64), 128 + (code % 64)>>
           ELSE <<224 + (code \div 4096), 128 + ((code \div 64) % 64), 128 + (code % 64)>>)
          \o Utf8Bytes(Tail(chars))

\* ------------------------------------------------------------------ errors

\* A thrown value: cls its class, id and statusCode the fields of an
\* ApiXResponseError, message its message.
NoError == [cls |-> "none", id |-> <<>>, statusCode |-> 0, message |-> <<>>]

\* new ApiXRequestError(message)
ApiXRequestError(message) ==
  [cls |-> "ApiXRequestError", id |-> <<>>, statusCode |-> 0, message |-> message]

\* new ApiXResponseError(id, statusCode, message)
ApiXResponseError(id, statusCode, message) ==
  [cls |-> "ApiXResponseError", id |-> id, statusCode |-> statusCode, message |-> message]

\* The subclasses of ApiXResponseError: each constructor passes its own id.
SpecificErrorIds == {
  <<"unauthorizedApp">>, <<"unauthorizedRequest">>, <<"invalidRequest">>,
  <<"missingRequiredHeaders">>, <<"missingJsonBody">>, <<"invalidJsonBody">>,
  <<"insecureProtocol">> }

\* A mutant of the subclasses: every id gives the plain class.
SpecificErrorClassPlain(id) == "ApiXResponseError"

\* The class whose constructor passes the id.
SpecificErrorClass(id) ==
  CASE id = <<"unauthorizedApp">> -> "ApiXResponseUnauthorizedAppError"
    [] id = <<"unauthorizedRequest">> -> "ApiXResponseUnauthorizedRequestError"
    [] id = <<"invalidRequest">> -> "ApiXResponseInvalidRequestError"
    [] id = <<"missingRequiredHeaders">> -> "ApiXResponseMissingRequiredHeadersError"
    [] id = <<"missingJsonBody">> -> "ApiXResponseMissingJsonBodyError"
    [] id = <<"invalidJsonBody">> -> "ApiXResponseInvalidJsonBodyError"
    [] id = <<"insecureProtocol">> -> "ApiXResponseInsecureProtocolError"

\* error instanceof ApiXResponseError
InstanceOfApiXResponseError(error) ==
  error.cls \in {"ApiXResponseError"} \cup { SpecificErrorClass(id) : id \in SpecificErrorIds }

\* An error of the platform (createHmac's TypeError, what fetch rejects with).
PlatformError(name, message) ==
  [cls |-> name, id |-> <<>>, statusCode |-> 0, message |-> message]

\* `${error}`: Error.prototype.toString, name and message joined by ": ";
\* the name of an ApiXResponseError is its id.
ErrorToString(error) ==
  LET name == IF InstanceOfApiXResponseError(error) THEN error.id ELSE <<error.cls>>
  IN IF error.message = <<>> THEN name
     ELSE name \o <<": ">> \o error.message

\* --------------------------------------------------------------- key store

\* What a key store method does when called: return the secret, return a
\* promise of it, or throw.
KeyStoreModes == {"sync", "async", "throws"}

\* A Promise<string>: an object, not a string; converted to a string (as
\* fetch does with a header value) it reads "[object Promise]".
PromiseOf(secret) == <<"[object Promise]">> \o secret

IsString(value) == value = <<>> \/ Head(value) # "[object Promise]"

KeyStoreError == PlatformError("Error", <<"key store unavailable">>)

KeyStoreCallNeverThrows(mode, secret) ==
  [threw |-> FALSE,
   value |-> IF mode = "async" THEN PromiseOf(secret) ELSE secret]

\* keyStore.getApiKey() / keyStore.getAppKey()
KeyStoreCall(mode, secret) ==
  [threw |-> mode = "throws",
   value |-> IF mode = "async" THEN PromiseOf(secret) ELSE secret]

\* The key stores a request is constructed with.
KeyStores == {
  [getApiKey |-> m[1], getAppKey |-> m[2],
   apiKey |-> <<"testApiKey">>, appKey |-> <<"testAppKey">>] :
  m \in { <<"sync", "sync">>, <<"async", "async">>, <<"async", "sync">>,
          <<"sync", "async">>, <<"throws", "sync">>, <<"sync", "throws">> } }

\* ------------------------------------------------------------------ inputs

\* config.url: its origin, pathname and search.
Urls == {
  [origin |-> <<"https://apix.example.com">>,
   pathname |-> <<"/endpoint/method">>, search |-> <<"?param=val">>] }

\* url.toString()
UrlToString(u) == u.origin \o u.pathname \o u.search

\* config.httpMethod (undefined when not given) and config.data.
RequestConfigs == {
  [httpMethod |-> Undefined, data |-> JsonUndefined],
  [httpMethod |-> <<"POST">>, data |-> JsonObject(<<>>)],
  [httpMethod |-> <<"POST">>,
   data |-> JsonObject(<<Member(<<"k","e","y">>, JsonString(<<"v","a","l","u","e">>))>>)] }

\* (new Date()).toUTCString() at clock tick t.
DateString(t) == <<"Wed, 13 Nov 2024 15:00:0", Ascii[17 + t], " GMT">>

\* The nonce alphabet of generateNonce.
NonceCharacters == UpperCase \o LowerCase \o <<"0","1","2","3","4","5","6","7","8","9">>

\* The length make() asks generateNonce for.
NonceLength == 32

\* The characters the random source is taken to pick from in this model.
NonceSample == {"A", "z"}

\* generateNonce(length): length random characters of the alphabet; the
\* model draws the nonces made of one sample character repeated.
generateNonce(length) ==
  { [i \in 1..length |-> c] :
      c \in { d \in NonceSample : \E i \in 1..Len(NonceCharacters) : NonceCharacters[i] = d } }

\* The names the caller passes to setHeader, unsetHeader and header.
HeaderNameInputs == {
  <<"x","-","s","i","g","n","a","t","u","r","e">>,
  <<" ","X","-","S","i","g","n","a","t","u","r","e","-","N","O","N","C","E"," ">>,
  <<"X","-","A","P","I","-","K","e","y">>,
  <<"c","o","n","t","e","n","t","-","T","y","p","e"," ">>,
  <<"\t","D","A","T","E">>,
  <<"x","-","c","u","s","t","o","m","-","h","e","a","d","e","r">>,
  <<"X","-","C","u","s","t","o","m","-","H","e","a","d","e","r"," ">>,
  <<"C","o","o","k","i","e">> }

\* The values the caller passes to setHeader.
HeaderValueInputs == { <<>>, <<"value">>, <<"other">> }

\* The (name, value) pairs the caller passes to setHeader: every name with
\* one value, one unprotected name with every value.
SetHeaderInputs ==
  { <<name, <<"value">>>> : name \in HeaderNameInputs }
  \cup { <<<<"x","-","c","u","s","t","o","m","-","h","e","a","d","e","r">>, value>> :
           value \in HeaderValueInputs }

\* The (name, value) pairs the caller passes to addCookie.
CookieInputs == {
  <<<<"session">>, <<"67890">>>>,
  <<<<"token">>, <<"abcdef">>>> }

\* The records the caller passes to setCookies, as [name, value] entries in
\* property order.
CookiesInputs == {
  << [name |-> <<"session">>, value |-> <<"12345">>],
     [name |-> <<"token">>, value |-> <<"abcdef">>] >> }

\* What fetch rejects with.
TransportFailures == {
  PlatformError("Error", <<"Network Error">>),
  PlatformError("TypeError", <<"fetch failed">>),
  PlatformError("AbortError", <<>>) }

\* A response payload as response.json() parses it: t its JavaScript type
\* ("object", "array", "string", "null"); for an object, success is "true",
\* "false" or "absent", message the top-level message (Undefined when
\* absent) and error the error member: "absent", or "object" with an id and
\* a message that are strings or not ("idType", "messageType").
NoErrorInfo == [t |-> "absent", idType |-> "undefined", id |-> Undefined,
                messageType |-> "undefined", message |-> Undefined]

ErrorInfo(id, message) ==
  [t |-> "object", idType |-> "string", id |-> id,
   messageType |-> "string", message |-> message]

Payload(t, success, message, error) ==
  [t |-> t, success |-> success, message |-> message, error |-> error]

PayloadNull == Payload("null", "absent", Undefined, NoErrorInfo)

\* The responses the transport resolves with: the HTTP status, whether the
\* body parses as JSON, and the parsed payload.
Responses == {
  [status |-> 200, parses |-> TRUE,
   data |-> Payload("object", "true", Undefined, NoErrorInfo)],
  [status |-> 400, parses |-> TRUE,
   data |-> Payload("object", "false", <<"The request is invalid.">>,
                    ErrorInfo(<<"invalidRequest">>, <<"The request is invalid.">>))],
  [status |-> 418, parses |-> TRUE,
   data |-> Payload("object", "false", Undefined,
                    ErrorInfo(<<"teapot">>, <<"Short and stout.">>))],
  [status |-> 400, parses |-> TRUE,
   data |-> Payload("object", "false", <<"Bad Request">>, NoErrorInfo)],
  [status |-> 400, parses |-> TRUE,
   data |-> Payload("object", "false", Undefined,
                    [t |-> "object", idType |-> "number", id |-> <<"42">>,
                     messageType |-> "string", message |-> <<"Numbered.">>])],
  [status |-> 500, parses |-> FALSE, data |-> PayloadNull],
  [status |-> 200, parses |-> TRUE,
   data |-> Payload("string", "absent", Undefined, NoErrorInfo)] }

\* ------------------------------------------------------------------- state

VARIABLES
  url,                \* ApiXRequest.url
  httpMethod,         \* ApiXRequest.httpMethod
  data,               \* ApiXRequest.data
  keyStore,           \* ApiXRequest.keyStore
  protectedHeaders,   \* ApiXRequest.protectedHeaders
  readOnlyHeaders,    \* ApiXRequest.readOnlyHeaders
  unprotectedHeaders, \* ApiXRequest.unprotectedHeaders
  sent,               \* ApiXRequest.sent
  cookiesStore,       \* ApiXRequest.cookiesStore, entries in property order
  now,                \* the wall clock new Date() reads
  pc,                 \* where the make() call that sends is: "idle",
                      \* "fetchCall" (inside the call of fetch), "fetch"
                      \* (awaiting fetch), "json" (awaiting response.json())
                      \* or "settled"
  fetchCalls,         \* how many times fetch was called
  fetchArgs,          \* the arguments of the call of fetch in progress
  response,           \* the response fetch resolved with
  outcome,            \* how the make() call that sends settled
  last                \* the public call that has just thrown, until its
                      \* caller has the exception

VARIABLES
  keyStoreCalls,      \* how many times each method of keyStore was called
  algorithm,          \* the algorithm of an ApiXSymmetricEncryptionService
  plaintext,          \* the data encrypt was called with
  secretKey,          \* the key encrypt was called with
  sealed,             \* the envelope encrypt returned
  envelope,           \* that envelope as it is now: what decrypt is given,
                      \* ApiXEncryptedKeyStore.encryptedKeys
  decrypted,          \* what the last call of decrypt did
  providerKey,        \* what KeyProvider.getKey() returns now
  secrets,            \* the apiKey and appKey an ApiXEncryptedKeyStore was
                      \* constructed with (its arguments, not a field)
  got                 \* what the last getApiKey() / getAppKey() of an
                      \* ApiXEncryptedKeyStore did

crypto == <<algorithm, plaintext, secretKey, sealed, envelope, decrypted,
            providerKey, secrets, got>>

vars == <<url, httpMethod, data, keyStore, protectedHeaders, readOnlyHeaders,
          unprotectedHeaders, sent, cookiesStore, now, pc, fetchCalls,
          fetchArgs, response, outcome, last, keyStoreCalls, algorithm,
          plaintext, secretKey, sealed, envelope, decrypted, providerKey,
          secrets, got>>

\* No method of the key store was called yet.
NoKeyStoreCalls == [getApiKey |-> 0, getAppKey |-> 0, getKeys |-> 0]

\* randomBytes(n): n random bytes, told apart by id; altered when one of
\* the bytes was changed afterwards.
Nonce(n, id) == [bytes |-> n, id |-> id, altered |-> FALSE]

NoNonce == Nonce(0, 0)

\* The output of a stream cipher: the bytes of data combined with the key
\* stream that cipher, key and iv determine; altered when one of its bytes
\* was changed afterwards.
Ciphertext(cipher, keyBuffer, iv, bytes) ==
  [cipher |-> cipher, key |-> keyBuffer, iv |-> iv, data |-> bytes, altered |-> FALSE]

NoCiphertext == Ciphertext("none", <<>>, NoNonce, <<>>)

\* An authentication tag: the first `bytes` bytes of the MAC that kind, key,
\* iv and ciphertext determine; altered when its first byte was changed
\* afterwards.  MACs of different inputs are different.
AuthTag(kind, keyBuffer, iv, ciphertext, bytes) ==
  [mac |-> [kind |-> kind, key |-> keyBuffer, iv |-> iv, ciphertext |-> ciphertext],
   bytes |-> bytes, altered |-> FALSE]

NoAuthTag == AuthTag("none", <<>>, NoNonce, NoCiphertext, 0)

\* The envelope encrypt returns, JSON.stringify({encrypted, iv, authTag})
\* (ChaChaEncryptionHandler names the iv "nonce"), each field in hex.
Envelope(encrypted, iv, authTag) == [encrypted |-> encrypted, iv |-> iv, authTag |-> authTag]

NoEnvelope == Envelope(NoCiphertext, NoNonce, NoAuthTag)

\* What a call of encrypt did: the key buffer it made of its key, and the
\* error it threw or the envelope it returned.  NotSealed: no call yet.
Sealed(keyBuffer, error, env) ==
  [op |-> "encrypt", keyBuffer |-> keyBuffer, threw |-> error # NoError,
   error |-> error, envelope |-> env]

NotSealed == [op |-> "none", keyBuffer |-> <<>>, threw |-> FALSE,
              error |-> NoError, envelope |-> NoEnvelope]

\* What a call of decrypt (op "decrypt"), getApiKey or getAppKey did: the
\* envelope and the key it was given, the key buffer it made of the key,
\* how many times it called keyProvider.getKey(), and the error it threw
\* or the string it returned.  NoResult: no call yet.
Result(op, input, key, keyBuffer, getKeyCalls, error, value) ==
  [op |-> op, input |-> input, key |-> key, keyBuffer |-> keyBuffer,
   getKeyCalls |-> getKeyCalls, threw |-> error # NoError, error |-> error,
   value |-> value]

NoResult == Result("none", NoEnvelope, <<>>, <<>>, 0, NoError, <<>>)

NoSecrets == [apiKey |-> <<>>, appKey |-> <<>>]

\* No encryption service and no encrypted key store are in use.
CryptoIdle ==
  /\ algorithm = "fast"
  /\ plaintext = <<>>
  /\ secretKey = <<>>
  /\ sealed = NotSealed
  /\ envelope = NoEnvelope
  /\ decrypted = NoResult
  /\ providerKey = <<>>
  /\ secrets = NoSecrets
  /\ got = NoResult

config == <<url, httpMethod, data, keyStore>>

headerMaps == <<protectedHeaders, readOnlyHeaders, unprotectedHeaders>>

sendState == <<sent, pc, fetchCalls, fetchArgs, response, outcome>>

NoResponse == [status |-> 0, parses |-> FALSE, data |-> PayloadNull]

NoFetchArgs == [url |-> <<>>, method |-> <<>>, headers |-> EmptyRecord,
                hasBody |-> FALSE, body |-> <<>>]

\* A make() promise: kind is "none" (not called), "pending", "resolved"
\* (with the ApiXResponse {data, statusCode}) or "rejected" (with error).
Outcome(kind, error, responseData, statusCode) ==
  [kind |-> kind, error |-> error, data |-> responseData, statusCode |-> statusCode]

NoOutcome == Outcome("none", NoError, PayloadNull, 0)

Pending == Outcome("pending", NoError, PayloadNull, 0)

Rejected(error) == Outcome("rejected", error, PayloadNull, 0)

Resolved(resp) == Outcome("resolved", NoError, resp.data, resp.statusCode)

\* A public call that threw: op the method, name its header-name argument
\* as passed, error what it threw.
Call(op, name, error) == [op |-> op, name |-> name, error |-> error]

NoCall == Call("none", <<>>, NoError)

\* JavaScript runs one call at a time: nothing else runs inside the call of
\* fetch, nor between a throw and its catch.
Running == pc # "fetchCall" /\ last = NoCall

\* ----------------------------------------------------------------- headers

\* initializeReadOnlyHeaders, with requestDate the date string it reads.
initializeReadOnlyHeaders(headers, requestDate) ==
  Put(Put(headers, headerName(HdrContentType), ApplicationJson),
      headerName(HdrDate), requestDate)

\* getCookieHeader: the entries as name=value, joined by "; ".
RECURSIVE getCookieHeader(_)
getCookieHeader(store) ==
  IF store = <<>> THEN <<>>
  ELSE Head(store).name \o <<"=">> \o Head(store).value
       \o (IF Len(store) > 1 THEN <<";", " ">> ELSE <<>>)
       \o getCookieHeader(Tail(store))

\* A mutant of the headers getter: the protected headers are spread in too.
headersWithProtected ==
  Spread(Spread(Put(unprotectedHeaders, HdrCookie, getCookieHeader(cookiesStore)),
                readOnlyHeaders),
         protectedHeaders)

\* get headers(): the unprotected headers, Cookie, the read-only headers.
headers ==
  Spread(Put(unprotectedHeaders, HdrCookie, getCookieHeader(cookiesStore)),
         readOnlyHeaders)

\* get allHeaders(), of the given maps and cookie store.
allHeaders(unprotected, readOnly, store, protected) ==
  Spread(Put(Spread(unprotected, readOnly), HdrCookie, getCookieHeader(store)),
         protected)

\* a || b of two string-or-undefined values
OrElse(a, b) == IF a = Undefined \/ a = <<>> THEN b ELSE a

\* A mutant of header(name): no check of the protected names, and the
\* protected map is read too.
headerUnguarded(name) ==
  [threw |-> FALSE,
   error |-> NoError,
   value |-> OrElse(OrElse(Get(unprotectedHeaders, headerName(name)),
                           Get(readOnlyHeaders, headerName(name))),
                    Get(protectedHeaders, headerName(name)))]

\* header(name): what it throws or returns.
header(name) ==
  IF isProtectedHeader(headerName(name))
  THEN [threw |-> TRUE,
        error |-> ApiXRequestError(<<"Invalid access. ">> \o name
                   \o <<" is a protected header and cannot be accessed.">>),
        value |-> Undefined]
  ELSE [threw |-> FALSE,
        error |-> NoError,
        value |-> OrElse(Get(unprotectedHeaders, headerName(name)),
                         Get(readOnlyHeaders, headerName(name)))]

\* setHeader(name, value)
setHeader(name, value) ==
  /\ Running
  /\ IF isProtectedHeader(headerName(name)) \/ isReadOnlyHeader(headerName(name))
     THEN /\ last' = Call("setHeader", name,
                 ApiXRequestError(<<"Attempting to set a protected header: ">>
                                  \o name \o <<"!">>))
          /\ UNCHANGED unprotectedHeaders
     ELSE /\ unprotectedHeaders' = Put(unprotectedHeaders, headerName(name), value)
          /\ last' = NoCall
  /\ UNCHANGED <<config, keyStoreCalls, crypto, protectedHeaders, readOnlyHeaders, cookiesStore, now, sendState>>

\* unsetHeader(name)
unsetHeader(name) ==
  /\ Running
  /\ IF isProtectedHeader(headerName(name)) \/ isReadOnlyHeader(headerName(name))
     THEN /\ last' = Call("unsetHeader", name,
                 ApiXRequestError(<<"Attempting to unset a protected header: ">>
                                  \o name \o <<"!">>))
          /\ UNCHANGED unprotectedHeaders
     ELSE /\ unprotectedHeaders' = Delete(unprotectedHeaders, headerName(name))
          /\ last' = NoCall
  /\ UNCHANGED <<config, keyStoreCalls, crypto, protectedHeaders, readOnlyHeaders, cookiesStore, now, sendState>>

\* A call of header(name): nothing changes but the record of the call.
getHeader(name) ==
  /\ Running
  /\ last' = IF header(name).threw
             THEN Call("header", name, header(name).error)
             ELSE NoCall
  /\ UNCHANGED <<config, keyStoreCalls, crypto, headerMaps, cookiesStore, now, sendState>>

\* ----------------------------------------------------------------- cookies

\* A property name that is an array index: decimal digits, written one
\* character each, without a leading zero.
IsArrayIndex(name) ==
  /\ name # <<>>
  /\ \A i \in DOMAIN name : name[i] \in {"0","1","2","3","4","5","6","7","8","9"}
  /\ (Len(name) = 1 \/ name[1] # "0")

\* The number an array index is.
RECURSIVE IndexValue(_)
IndexValue(name) ==
  IF name = <<>> THEN 0
  ELSE 10 * IndexValue(SubSeq(name, 1, Len(name) - 1)) + (CharCode(name[Len(name)]) - 48)

\* store[name] = value, the entries being in the order Object.entries lists
\* them: an existing property keeps its place; a new one that is an array
\* index goes among the array indices, which come first in ascending
\* order; any other new one goes last.
RECURSIVE SetProperty(_, _, _)
SetProperty(store, name, value) ==
  IF store = <<>> THEN <<[name |-> name, value |-> value]>>
  ELSE IF Head(store).name = name
       THEN <<[name |-> name, value |-> value]>> \o Tail(store)
  ELSE IF /\ IsArrayIndex(name)
          /\ (~IsArrayIndex(Head(store).name)
              \/ IndexValue(Head(store).name) > IndexValue(name))
       THEN <<[name |-> name, value |-> value]>> \o store
       ELSE <<Head(store)>> \o SetProperty(Tail(store), name, value)

\* delete store[name]
RECURSIVE DeleteProperty(_, _)
DeleteProperty(store, name) ==
  IF store = <<>> THEN <<>>
  ELSE IF Head(store).name = name THEN Tail(store)
       ELSE <<Head(store)>> \o DeleteProperty(Tail(store), name)

\* { ...store, ...cookies }
RECURSIVE SpreadProperties(_, _)
SpreadProperties(store, cookies) ==
  IF cookies = <<>> THEN store
  ELSE SpreadProperties(SetProperty(store, Head(cookies).name, Head(cookies).value),
                        Tail(cookies))

\* getCookie(name)
getCookie(name) ==
  IF \E i \in 1..Len(cookiesStore) : cookiesStore[i].name = name
  THEN cookiesStore[CHOOSE i \in 1..Len(cookiesStore) : cookiesStore[i].name = name].value
  ELSE Undefined

\* setCookies(cookies)
setCookies(cookies) ==
  /\ Running
  /\ cookiesStore' = SpreadProperties(cookiesStore, cookies)
  /\ last' = NoCall
  /\ UNCHANGED <<config, keyStoreCalls, crypto, headerMaps, now, sendState>>

\* addCookie(name, value)
addCookie(name, value) ==
  /\ Running
  /\ cookiesStore' = SetProperty(cookiesStore, name, value)
  /\ last' = NoCall
  /\ UNCHANGED <<config, keyStoreCalls, crypto, headerMaps, now, sendState>>

\* removeCookie(name)
removeCookie(name) ==
  /\ Running
  /\ cookiesStore' = DeleteProperty(cookiesStore, name)
  /\ last' = NoCall
  /\ UNCHANGED <<config, keyStoreCalls, crypto, headerMaps, now, sendState>>

\* --------------------------------------------------------------- signature

\* createHmac('sha256', key).update(message, 'utf-8').digest().toString('hex'):
\* HMAC-SHA256 is taken as a function that has no collisions; its value is
\* written as the term of its key and message.
HmacSha256Hex(key, message) == <<"hmac-sha256:">> \o key \o <<"|">> \o message

\* The message generateSignature signs, for a request with the given url,
\* method and body.
canonicalMessage(u, method, body, dateString, nonce) ==
  LET httpBody == IF body.t \in {"undefined", "null"} THEN JsonObject(<<>>) ELSE body
      stringifiedJsonBody ==
        IF Len(httpBody.m) > 0 THEN JsonStringify(sortedObjectKeys(httpBody)) ELSE <<>>
      httpBodyBase64 ==
        IF Len(stringifiedJsonBody) > 0 THEN Base64(BinaryBytes(stringifiedJsonBody)) ELSE <<>>
      pathWithQueries == u.pathname \o u.search
  IN pathWithQueries \o <<".">> \o method \o <<".">> \o nonce \o <<".">>
       \o dateString \o <<".">> \o httpBodyBase64

\* A mutant of the message: the method is left out.
signatureMessageNoMethod(dateString, nonce) ==
  canonicalMessage(url, <<>>, data, dateString, nonce)

\* The message generateSignature signs for this request.
signatureMessage(dateString, nonce) ==
  canonicalMessage(url, httpMethod, data, dateString, nonce)

\* generateSignature(appKey, dateString, nonce): createHmac throws a
\* TypeError for a key that is not a string.
generateSignature(appKey, dateString, nonce) ==
  IF ~IsString(appKey)
  THEN [threw |-> TRUE,
        error |-> PlatformError("TypeError", <<"The \"key\" argument must be of type string">>),
        value |-> Undefined]
  ELSE [threw |-> FALSE,
        error |-> NoError,
        value |-> HmacSha256Hex(appKey, signatureMessage(dateString, nonce))]

\* initializeProtectedHeaders(apiKey, appKey), with the nonce generateNonce
\* returns: what it throws, or the protected headers it leaves.
initializeProtectedHeaders(apiKey, appKey, nonce) ==
  LET requestDate == readOnlyHeaders[headerName(HdrDate)]
      signature == generateSignature(appKey, requestDate, nonce)
  IN IF signature.threw
     THEN [threw |-> TRUE, error |-> signature.error,
           protectedHeaders |-> protectedHeaders]
     ELSE [threw |-> FALSE, error |-> NoError,
           protectedHeaders |->
             Put(Put(Put(protectedHeaders, headerName(HdrApiKey), apiKey),
                     headerName(HdrSignature), signature.value),
                 headerName(HdrSignatureNonce), nonce)]

\* unsetProtectedHeaders: the API key is deleted from the read-only map.
unsetProtectedHeaders(protected, readOnly) ==
  [protectedHeaders |->
     Delete(Delete(protected, headerName(HdrSignature)), headerName(HdrSignatureNonce)),
   readOnlyHeaders |-> Delete(readOnly, headerName(HdrApiKey))]

\* ---------------------------------------------------------------- responses

\* A mutant of isApiXErrorResponse: success === false is all it asks for.
isApiXErrorResponseSuccessOnly(payload) ==
  /\ payload.t \in {"object", "array"}
  /\ payload.success = "false"

\* isApiXErrorResponse(data)
isApiXErrorResponse(payload) ==
  /\ payload.t \in {"object", "array"}
  /\ payload.success = "false"
  /\ payload.error.t = "object"
  /\ payload.error.idType = "string"
  /\ payload.error.messageType = "string"

\* super(message): an undefined message is the empty message.
ErrorMessage(message) == IF message = Undefined THEN <<>> ELSE message

\* A mutant of errorForResponse: the unknown error is returned for every
\* response, never thrown.
errorForResponseUnknownReturned(resp) ==
  [threw |-> FALSE, error |-> ApiXResponseError(<<"unknownError">>, resp.statusCode, <<>>)]

\* errorForResponse(response): the error it returns, or throws.
errorForResponse(resp) ==
  IF resp.data.t \notin {"object", "array"}
  THEN [threw |-> TRUE,
        error |-> ApiXResponseError(<<"unknownError">>, resp.statusCode, <<>>)]
  ELSE LET error == IF resp.data.error.t = "absent"
                    THEN [id |-> <<"ApiXResponseError">>, message |-> resp.data.message]
                    ELSE [id |-> resp.data.error.id, message |-> resp.data.error.message]
       IN [threw |-> FALSE,
           error |->
             IF resp.data.error.t = "object" /\ resp.data.error.idType = "string"
                /\ error.id \in SpecificErrorIds
             THEN [cls |-> SpecificErrorClass(error.id), id |-> error.id,
                   statusCode |-> resp.statusCode, message |-> ErrorMessage(error.message)]
             ELSE ApiXResponseError(error.id, resp.statusCode, ErrorMessage(error.message))]

\* A mutant of handleResponse: every response is returned as it is.
handleResponseNeverThrows(resp) == [threw |-> FALSE, error |-> NoError]

\* handleResponse(response): what it throws, if it does not return response.
handleResponse(resp) ==
  IF resp.data.t # "null" /\ isApiXErrorResponse(resp.data)
  THEN [threw |-> TRUE, error |-> errorForResponse(resp).error]
  ELSE [threw |-> FALSE, error |-> NoError]

\* A mutant of the catch block of make(): the cause is rethrown as it is.
makeCatchRethrows(error) == error

\* The catch block of make(): what make() rejects with for a caught error.
makeCatch(error) ==
  IF InstanceOfApiXResponseError(error) THEN error
  ELSE ApiXRequestError(<<"API-X Request failed: ">> \o ErrorToString(error))

AlreadySent ==
  ApiXRequestError(<<"This request has already been sent. API-X does not allow attempting to send the same request multiple times.">>)

\* -------------------------------------------------------------------- make

\* A mutant of the sent check of make(): the flag is not looked at.
sentCheckSkipped == FALSE

\* if (this.sent): whether make() refuses to send.
sentCheck == sent

\* make(), to its first suspension: the sent check, the key store reads,
\* the protected headers, the call of fetch.  Time has passed since the
\* request was constructed.
make(nonce) ==
  /\ Running
  /\ fetchCalls < MaxFetchCalls
  /\ now' = (IF now < MaxClock THEN now + 1 ELSE now)
  /\ IF sentCheck
     THEN /\ last' = Call("make", <<>>, AlreadySent)
          /\ UNCHANGED <<sent, protectedHeaders, pc, fetchCalls, fetchArgs, outcome,
                         keyStoreCalls>>
     ELSE /\ sent' = TRUE
          /\ last' = NoCall
          /\ keyStoreCalls' =
               [keyStoreCalls EXCEPT
                  !.getApiKey = @ + 1,
                  !.getAppKey = IF keyStore.getApiKey = "throws" THEN @ ELSE @ + 1]
          /\ LET apiKey == KeyStoreCall(keyStore.getApiKey, keyStore.apiKey)
                 appKey == KeyStoreCall(keyStore.getAppKey, keyStore.appKey)
                 init == initializeProtectedHeaders(apiKey.value, appKey.value, nonce)
             IN IF apiKey.threw \/ appKey.threw
                THEN /\ outcome' = Rejected(KeyStoreError)
                     /\ pc' = "settled"
                     /\ UNCHANGED <<protectedHeaders, fetchCalls, fetchArgs>>
                ELSE IF init.threw
                THEN /\ outcome' = Rejected(init.error)
                     /\ pc' = "settled"
                     /\ UNCHANGED <<protectedHeaders, fetchCalls, fetchArgs>>
                ELSE /\ protectedHeaders' = init.protectedHeaders
                     /\ fetchCalls' = fetchCalls + 1
                     /\ fetchArgs' =
                          [url |-> UrlToString(url),
                           method |-> httpMethod,
                           headers |-> allHeaders(unprotectedHeaders, readOnlyHeaders,
                                                  cookiesStore, init.protectedHeaders),
                           hasBody |-> data.t \notin {"undefined", "null"},
                           body |-> IF data.t \notin {"undefined", "null"}
                                    THEN JsonStringify(data) ELSE <<>>]
                     /\ outcome' = Pending
                     /\ pc' = "fetchCall"
  /\ UNCHANGED <<config, crypto, readOnlyHeaders, unprotectedHeaders, cookiesStore, response>>

\* fetch has read its arguments and returned its promise; make() awaits it.
fetchReturns ==
  /\ pc = "fetchCall"
  /\ pc' = "fetch"
  /\ fetchArgs' = NoFetchArgs
  /\ UNCHANGED <<config, keyStoreCalls, crypto, headerMaps, sent, cookiesStore, now, fetchCalls,
                 response, outcome, last>>

\* fetch resolves with a response; make() awaits response.json().
fetchResolves(resp) ==
  /\ pc = "fetch"
  /\ last = NoCall
  /\ response' = resp
  /\ pc' = "json"
  /\ UNCHANGED <<config, keyStoreCalls, crypto, headerMaps, sent, cookiesStore, now, fetchCalls,
                 fetchArgs, outcome, last>>

\* fetch rejects: the catch block of make().
fetchRejects(cause) ==
  /\ pc = "fetch"
  /\ last = NoCall
  /\ LET unset == unsetProtectedHeaders(protectedHeaders, readOnlyHeaders)
     IN /\ protectedHeaders' = unset.protectedHeaders
        /\ readOnlyHeaders' = unset.readOnlyHeaders
  /\ outcome' = Rejected(makeCatch(cause))
  /\ pc' = "settled"
  /\ UNCHANGED <<config, keyStoreCalls, crypto, unprotectedHeaders, sent, cookiesStore, now, fetchCalls,
                 fetchArgs, response, last>>

\* response.json() settles (a rejection is caught and gives null): the
\* protected headers are unset, handleResponse decides the outcome; what
\* it throws goes through the catch block, which unsets them again.
jsonSettles ==
  /\ pc = "json"
  /\ last = NoCall
  /\ LET responseData == IF response.parses THEN response.data ELSE PayloadNull
         resp == [data |-> responseData, statusCode |-> response.status]
         unset == unsetProtectedHeaders(protectedHeaders, readOnlyHeaders)
         handled == handleResponse(resp)
         again == unsetProtectedHeaders(unset.protectedHeaders, unset.readOnlyHeaders)
     IN IF handled.threw
        THEN /\ protectedHeaders' = again.protectedHeaders
             /\ readOnlyHeaders' = again.readOnlyHeaders
             /\ outcome' = Rejected(makeCatch(handled.error))
        ELSE /\ protectedHeaders' = unset.protectedHeaders
             /\ readOnlyHeaders' = unset.readOnlyHeaders
             /\ outcome' = Resolved(resp)
  /\ response' = NoResponse
  /\ pc' = "settled"
  /\ UNCHANGED <<config, keyStoreCalls, crypto, unprotectedHeaders, sent, cookiesStore, now, fetchCalls,
                 fetchArgs, last>>

\* The caller of a call that threw has the exception.
callerCatches ==
  /\ last # NoCall
  /\ last' = NoCall
  /\ UNCHANGED <<config, keyStoreCalls, crypto, headerMaps, cookiesStore, now, sendState>>

\* ----------------------------------------------------------- specification

\* new ApiXRequest(config)
Init ==
  /\ url \in Urls
  /\ \E c \in RequestConfigs :
       /\ httpMethod = (IF c.httpMethod = Undefined THEN <<"GET">> ELSE c.httpMethod)
       /\ data = c.data
  /\ keyStore \in KeyStores
  /\ now = 0
  /\ protectedHeaders = EmptyRecord
  /\ readOnlyHeaders = initializeReadOnlyHeaders(EmptyRecord, DateString(now))
  /\ unprotectedHeaders = EmptyRecord
  /\ sent = FALSE
  /\ cookiesStore = <<>>
  /\ pc = "idle"
  /\ fetchCalls = 0
  /\ fetchArgs = NoFetchArgs
  /\ response = NoResponse
  /\ outcome = NoOutcome
  /\ last = NoCall
  /\ keyStoreCalls = NoKeyStoreCalls
  /\ CryptoIdle

Next ==
  \/ \E input \in SetHeaderInputs : setHeader(input[1], input[2])
  \/ \E name \in HeaderNameInputs : unsetHeader(name)
  \/ \E name \in HeaderNameInputs : getHeader(name)
  \/ \E cookies \in CookiesInputs : setCookies(cookies)
  \/ \E cookie \in CookieInputs : addCookie(cookie[1], cookie[2])
  \/ \E cookie \in CookieInputs : removeCookie(cookie[1])
  \/ \E nonce \in generateNonce(NonceLength) : make(nonce)
  \/ fetchReturns
  \/ \E resp \in Responses : fetchResolves(resp)
  \/ \E cause \in TransportFailures : fetchRejects(cause)
  \/ jsonSettles
  \/ callerCatches

Spec == Init /\ [][Next]_vars

\* ------------------------------------------------------------------ claims

\* The protected header names as the map keys the code uses.
ProtectedKeys == {
  <<"x","-","s","i","g","n","a","t","u","r","e">>,
  <<"x","-","s","i","g","n","a","t","u","r","e","-","n","o","n","c","e">>,
  <<"x","-","a","p","i","-","k","e","y">> }

ReadOnlyKeys == { <<"c","o","n","t","e","n","t","-","t","y","p","e">>, <<"d","a","t","e">> }

\* The caller's names whose trimmed, lower-cased form is a protected name.
ProtectedNameInputs == { name \in HeaderNameInputs : ToLowerCase(Trim(name)) \in ProtectedKeys }

\* The caller's names whose trimmed, lower-cased form is a read-only name.
ReadOnlyNameInputs == { name \in HeaderNameInputs : ToLowerCase(Trim(name)) \in ReadOnlyKeys }

\* C1: the transport is invoked at most once per request.  A step never
\* turns sent back to false; once sent is true no step calls fetch; fetch
\* is never called a second time; and every make() call on a request that
\* is already sent (also while the first call is still awaiting) throws
\* the already-sent error and changes nothing of the request.
C1_SendsAtMostOnce ==
  [][ /\ sent => sent'
      /\ sent => fetchCalls' = fetchCalls
      /\ fetchCalls' <= 1
      /\ fetchCalls' = 1 => sent'
      /\ \A nonce \in generateNonce(NonceLength) :
           (sent /\ make(nonce)) =>
             /\ last' = Call("make", <<>>, AlreadySent)
             /\ UNCHANGED <<headerMaps, cookiesStore, sendState>> ]_vars

\* C1 witness: a second make() was refused while the first awaits fetch.
C1_Witness ==
  /\ last = Call("make", <<>>, AlreadySent)
  /\ pc = "fetch"
  /\ fetchCalls = 1

\* C2: whenever no send attempt is in progress (before the first make()
\* and after it has settled), the protected header map holds no entry for
\* x-api-key, x-signature or x-signature-nonce.
C2_ProtectedHeadersCleared ==
  pc \in {"idle", "settled"} => \A key \in ProtectedKeys : key \notin DOMAIN protectedHeaders

\* C3: for every name whose trimmed, lower-cased form is protected, in
\* every lifecycle state, setHeader, unsetHeader and header throw their
\* documented errors (with the name as passed), and the call leaves the
\* three header maps and the cookie store unchanged.
C3_ProtectedNamesThrow ==
  [][ \A name \in ProtectedNameInputs :
        /\ \A value \in HeaderValueInputs :
             setHeader(name, value) =>
               /\ last' = Call("setHeader", name,
                    ApiXRequestError(<<"Attempting to set a protected header: ">>
                                     \o name \o <<"!">>))
               /\ UNCHANGED <<headerMaps, cookiesStore>>
        /\ unsetHeader(name) =>
             /\ last' = Call("unsetHeader", name,
                  ApiXRequestError(<<"Attempting to unset a protected header: ">>
                                   \o name \o <<"!">>))
             /\ UNCHANGED <<headerMaps, cookiesStore>>
        /\ getHeader(name) =>
             /\ last' = Call("header", name,
                  ApiXRequestError(<<"Invalid access. ">> \o name
                                   \o <<" is a protected header and cannot be accessed.">>))
             /\ UNCHANGED <<headerMaps, cookiesStore>> ]_vars

\* C3 witness: header() of a protected name, written in another case and
\* with surrounding blanks, has thrown while the request is in flight and
\* the protected headers are populated.
C3_Witness ==
  /\ pc = "fetch"
  /\ ProtectedKeys \subseteq DOMAIN protectedHeaders
  /\ last.op = "header"
  /\ last.name = <<" ","X","-","S","i","g","n","a","t","u","r","e","-","N","O","N","C","E"," ">>
  /\ last.error.cls = "ApiXRequestError"

\* The values of the protected tier: what the protected map holds.
ProtectedValues == { protectedHeaders[key] : key \in DOMAIN protectedHeaders }

\* C4: in every state, the headers getter has no protected name and no
\* protected value, and header(name) returns no protected value.
C4_ProtectedValuesHidden ==
  /\ \A key \in DOMAIN headers :
       /\ ToLowerCase(Trim(key)) \notin ProtectedKeys
       /\ headers[key] \notin ProtectedValues
  /\ \A name \in HeaderNameInputs :
       ~header(name).threw => header(name).value \notin ProtectedValues

\* C4 witness: the request is in flight with its protected headers
\* populated, after the caller set a header and a cookie.
C4_Witness ==
  /\ pc = "fetch"
  /\ ProtectedKeys \subseteq DOMAIN protectedHeaders
  /\ unprotectedHeaders # EmptyRecord
  /\ cookiesStore # <<>>

\* header('content-type') and header('date') return the construction-time
\* values.
ReadOnlyValuesKept ==
  /\ header(<<"c","o","n","t","e","n","t","-","t","y","p","e">>) =
       [threw |-> FALSE, error |-> NoError, value |-> <<"application/json">>]
  /\ header(<<"d","a","t","e">>) =
       [threw |-> FALSE, error |-> NoError, value |-> DateString(0)]

\* C5: in every state header('content-type') and header('date') return
\* their construction-time values, and every setHeader and unsetHeader on
\* either name (any case, blanks around it) throws.
C5_ReadOnlyHeadersKept ==
  /\ []ReadOnlyValuesKept
  /\ [][ \A name \in ReadOnlyNameInputs :
           /\ \A value \in HeaderValueInputs :
                setHeader(name, value) =>
                  last' = Call("setHeader", name,
                    ApiXRequestError(<<"Attempting to set a protected header: ">>
                                     \o name \o <<"!">>))
           /\ unsetHeader(name) =>
                last' = Call("unsetHeader", name,
                  ApiXRequestError(<<"Attempting to unset a protected header: ">>
                                   \o name \o <<"!">>)) ]_vars

\* C5 witness: setHeader on the date header has thrown after the request
\* settled, at a later time than its construction.
C5_Witness ==
  /\ pc = "settled"
  /\ now > 0
  /\ last.op = "setHeader"
  /\ last.name = <<"\t","D","A","T","E">>
  /\ last.error.cls = "ApiXRequestError"

\* The keys of the header set under which the API key, the signature, the
\* nonce and the date are handed to the transport.
KeyApiKey == <<"x","-","a","p","i","-","k","e","y">>

KeySignature == <<"x","-","s","i","g","n","a","t","u","r","e">>

KeySignatureNonce == <<"x","-","s","i","g","n","a","t","u","r","e","-","n","o","n","c","e">>

KeyDate == <<"d","a","t","e">>

\* The header set of the call of fetch in progress carries the key store's
\* API key, the construction-time date, and the signature, under the key
\* store's application key, of the message built from the nonce and the
\* date of that same header set.
TransportHeadersConsistent ==
  LET h == fetchArgs.headers
  IN /\ {KeyApiKey, KeySignature, KeySignatureNonce, KeyDate} \subseteq DOMAIN h
     /\ h[KeyApiKey] = keyStore.apiKey
     /\ h[KeyDate] = DateString(0)
     /\ h[KeySignature] =
          HmacSha256Hex(keyStore.appKey, signatureMessage(h[KeyDate], h[KeySignatureNonce]))

\* C6: at the moment the transport is invoked, the header set passed to it
\* contains x-api-key equal to the key store's API key, and its x-signature
\* is the signature of the message built from the x-signature-nonce and
\* date values of that same header set, the date being the one captured at
\* construction.
C6_TransportHeadersConsistent ==
  pc = "fetchCall" => TransportHeadersConsistent

\* The key store returns at least one secret asynchronously, and its
\* methods do not throw.
AsyncKeyStore ==
  /\ "async" \in {keyStore.getApiKey, keyStore.getAppKey}
  /\ "throws" \notin {keyStore.getApiKey, keyStore.getAppKey}

\* C7: with a key store that returns its secrets asynchronously, make()
\* reaches the transport, which it invokes with the resolved API key in
\* x-api-key and a signature computed with the resolved application key;
\* make() does not settle without having invoked the transport.
C7_AsyncKeyStoreSupported ==
  AsyncKeyStore =>
    /\ pc = "fetchCall" =>
         /\ Get(fetchArgs.headers, KeyApiKey) = keyStore.apiKey
         /\ Get(fetchArgs.headers, KeySignature) =
              HmacSha256Hex(keyStore.appKey,
                            signatureMessage(Get(fetchArgs.headers, KeyDate),
                                             Get(fetchArgs.headers, KeySignatureNonce)))
    /\ pc = "settled" => fetchCalls = 1

\* A payload the server marked unsuccessful: a JSON object with
\* success: false.
MarkedUnsuccessful(payload) ==
  payload.t = "object" /\ payload.success = "false"

\* A payload of the ApiXErrorResponse shape: marked unsuccessful, with an
\* error object whose id and message are strings.
ErrorResponseShaped(payload) ==
  /\ MarkedUnsuccessful(payload)
  /\ payload.error.t = "object"
  /\ payload.error.idType = "string"
  /\ payload.error.messageType = "string"

\* C8 as stated: make() never resolves with a payload the server marked
\* unsuccessful (a JSON object with success: false).
C8_Original ==
  outcome.kind = "resolved" => ~MarkedUnsuccessful(outcome.data)

\* C8: when the response payload is a JSON object with success: false and
\* an error object whose id and message are strings, make() rejects with
\* an ApiXResponseError (or its subclass for that id) carrying the error id
\* and the HTTP status code, and it never resolves with such a payload.
C8_ErrorResponsesRejected ==
  /\ [](outcome.kind = "resolved" => ~ErrorResponseShaped(outcome.data))
  /\ [][ (jsonSettles /\ response.parses /\ ErrorResponseShaped(response.data)) =>
           /\ outcome'.kind = "rejected"
           /\ InstanceOfApiXResponseError(outcome'.error)
           /\ outcome'.error.id = response.data.error.id
           /\ outcome'.error.statusCode = response.status ]_vars

\* C8 witness: make() has rejected with a plain ApiXResponseError carrying
\* the id and the status of an error response with an id of no subclass.
C8_Witness ==
  /\ pc = "settled"
  /\ outcome.kind = "rejected"
  /\ outcome.error = ApiXResponseError(<<"teapot">>, 418, <<"Short and stout.">>)

\* A legacy failure payload: success: false and a top-level message, no
\* error object.
LegacyFailure(payload) ==
  /\ MarkedUnsuccessful(payload)
  /\ payload.message # Undefined
  /\ payload.error.t = "absent"

\* C9: when the server answers with a legacy failure payload, make()
\* resolves with a response whose statusCode is the HTTP status and whose
\* data is the payload unchanged.
C9_LegacyFailureResolves ==
  [][ (jsonSettles /\ response.parses /\ LegacyFailure(response.data)) =>
        outcome' = Outcome("resolved", NoError, response.data, response.status) ]_vars

\* C9 witness: make() has resolved with the legacy payload of a status 400
\* answer.
C9_Witness ==
  /\ pc = "settled"
  /\ outcome.kind = "resolved"
  /\ outcome.statusCode = 400
  /\ outcome.data = Payload("object", "false", <<"Bad Request">>, NoErrorInfo)

\* C10: when fetch rejects with a cause, make() rejects with an
\* ApiXRequestError whose message is 'API-X Request failed: ' followed by the
\* string form of the cause, after exactly one call of fetch; once make()
\* has settled, fetch is not called again.
C10_TransportFailureWrapped ==
  [][ /\ \A cause \in TransportFailures :
           fetchRejects(cause) =>
             /\ outcome' = Rejected(ApiXRequestError(<<"API-X Request failed: ">>
                                                     \o ErrorToString(cause)))
             /\ pc' = "settled"
             /\ fetchCalls' = 1
      /\ pc = "settled" => (pc' = "settled" /\ fetchCalls' = fetchCalls
                            /\ outcome' = outcome) ]_vars

\* C10 witness: make() has rejected with the wrapped network error, after
\* one call of fetch, and a later make() was refused.
C10_Witness ==
  /\ pc = "settled"
  /\ fetchCalls = 1
  /\ outcome.error =
       ApiXRequestError(<<"API-X Request failed: ", "Error", ": ", "Network Error">>)
  /\ last = Call("make", <<>>, AlreadySent)

\* ------------------------------------------------- errorForResponse alone

\* The error objects of the payloads errorForResponse is called with: the
\* seven ids that have a subclass, two that have none, each with a message
\* and with the empty message.
ClassifierErrorInfos ==
  { ErrorInfo(id, message) :
      id \in SpecificErrorIds \cup {<<"teapot">>, <<"ApiXResponseError">>},
      message \in {<<>>, <<"Something went wrong">>} }

\* The payloads errorForResponse is called with: objects with and without
\* an error object and a top-level message, an array, and what is not an
\* object.
ClassifierPayloads ==
  { Payload("object", "false", message, error) :
      message \in {Undefined, <<"Old format error message">>},
      error \in ClassifierErrorInfos \cup {NoErrorInfo} }
  \cup { Payload(t, "absent", Undefined, NoErrorInfo) :
           t \in {"array", "null", "undefined", "string", "number"} }

ClassifierStatusCodes == {400, 401, 500}

\* A request is constructed and errorForResponse is about to be called
\* with a response.
ClassifierInit ==
  /\ url \in Urls
  /\ httpMethod = <<"GET">>
  /\ data = JsonUndefined
  /\ keyStore = [getApiKey |-> "sync", getAppKey |-> "sync",
                 apiKey |-> <<"testApiKey">>, appKey |-> <<"testAppKey">>]
  /\ now = 0
  /\ protectedHeaders = EmptyRecord
  /\ readOnlyHeaders = initializeReadOnlyHeaders(EmptyRecord, DateString(now))
  /\ unprotectedHeaders = EmptyRecord
  /\ sent = FALSE
  /\ cookiesStore = <<>>
  /\ pc = "idle"
  /\ fetchCalls = 0
  /\ fetchArgs = NoFetchArgs
  /\ \E status \in ClassifierStatusCodes, payload \in ClassifierPayloads :
       response = [status |-> status, parses |-> TRUE, data |-> payload]
  /\ outcome = NoOutcome
  /\ last = NoCall
  /\ keyStoreCalls = NoKeyStoreCalls
  /\ CryptoIdle

\* errorForResponse({data, statusCode}) is called: outcome records whether
\* it "returned" or "threw", and the error.
classify ==
  /\ outcome = NoOutcome
  /\ LET result == errorForResponse([data |-> response.data,
                                     statusCode |-> response.status])
     IN outcome' = Outcome(IF result.threw THEN "threw" ELSE "returned",
                           result.error, response.data, response.status)
  /\ UNCHANGED <<config, keyStoreCalls, crypto, headerMaps, sent, cookiesStore, now, pc, fetchCalls,
                 fetchArgs, response, last>>

ClassifierNext == classify

ClassifierSpec == ClassifierInit /\ [][ClassifierNext]_vars

\* The class the classifier is to give an id: the dedicated subclass of
\* the seven known ids, the plain class for every other id.
ExpectedClass(id) ==
  CASE id = <<"unauthorizedApp">> -> "ApiXResponseUnauthorizedAppError"
    [] id = <<"unauthorizedRequest">> -> "ApiXResponseUnauthorizedRequestError"
    [] id = <<"invalidRequest">> -> "ApiXResponseInvalidRequestError"
    [] id = <<"missingRequiredHeaders">> -> "ApiXResponseMissingRequiredHeadersError"
    [] id = <<"missingJsonBody">> -> "ApiXResponseMissingJsonBodyError"
    [] id = <<"invalidJsonBody">> -> "ApiXResponseInvalidJsonBodyError"
    [] id = <<"insecureProtocol">> -> "ApiXResponseInsecureProtocolError"
    [] OTHER -> "ApiXResponseError"

\* The message of an Error constructed with a message that may be absent.
MessageOrEmpty(message) == IF message = Undefined THEN <<>> ELSE message

\* C11: for every response whose data is an object, errorForResponse
\* returns an error whose statusCode is the response's, whose id is
\* data.error.id and whose message is data.error.message, or the id
\* 'ApiXResponseError' and the top-level data.message (the empty message
\* when there is none) when data has no error field; its class is the
\* dedicated subclass for the seven known ids and the plain
\* ApiXResponseError for every other id.
C11_ClassifiedById ==
  (outcome.kind \in {"returned", "threw"} /\ response.data.t \in {"object", "array"}) =>
    LET payload == response.data
        id == IF payload.error.t = "absent" THEN <<"ApiXResponseError">>
              ELSE payload.error.id
        message == IF payload.error.t = "absent" THEN MessageOrEmpty(payload.message)
                   ELSE payload.error.message
    IN /\ outcome.kind = "returned"
       /\ outcome.error.statusCode = response.status
       /\ outcome.error.id = id
       /\ outcome.error.message = message
       /\ outcome.error.cls = ExpectedClass(id)

\* C11 witness: a known id was given its subclass, with the status and the
\* message of the response.
C11_Witness ==
  /\ outcome.kind = "returned"
  /\ response.status = 401
  /\ outcome.error =
       [cls |-> "ApiXResponseMissingJsonBodyError", id |-> <<"missingJsonBody">>,
        statusCode |-> 401, message |-> <<"Something went wrong">>]

\* C12: when the response data is null, undefined or not an object,
\* errorForResponse throws an ApiXResponseError whose id is 'unknownError'
\* and whose statusCode is the response's status code.
C12_UnknownErrorThrown ==
  (outcome.kind \in {"returned", "threw"} /\ response.data.t \notin {"object", "array"}) =>
    /\ outcome.kind = "threw"
    /\ outcome.error.cls = "ApiXResponseError"
    /\ outcome.error.id = <<"unknownError">>
    /\ outcome.error.statusCode = response.status

\* C12 witness: the unknown error was thrown for a null payload of a
\* status 500 response.
C12_Witness ==
  /\ outcome.kind = "threw"
  /\ response.data.t = "null"
  /\ response.status = 500
  /\ outcome.error.id = <<"unknownError">>

\* C13: when the body of the response cannot be parsed as JSON, make()
\* resolves with {data: null, statusCode} for the status of the response,
\* and the protected header map holds none of the protected headers
\* afterwards.
C13_UnparseableResolvesNull ==
  [][ (jsonSettles /\ ~response.parses) =>
        /\ outcome' = Outcome("resolved", NoError, PayloadNull, response.status)
        /\ \A key \in ProtectedKeys : key \notin DOMAIN protectedHeaders' ]_vars

\* ----------------------------------------------------- signing, on its own

\* The urls of the requests that are signed.
SigningUrls == {
  [origin |-> <<"https://apix.example.com">>,
   pathname |-> <<"/endpoint/method">>, search |-> <<"?param=val">>],
  [origin |-> <<"https://x">>, pathname |-> <<"/y">>, search |-> <<"?z=1">>],
  [origin |-> <<"https://x">>, pathname |-> <<"/y">>, search |-> <<"?z=2">>],
  [origin |-> <<"https://x">>, pathname |-> <<"/y">>, search |-> <<>>],
  [origin |-> <<"https://x">>, pathname |-> <<"/w">>, search |-> <<"?z=1">>] }

\* The bodies of the requests that are signed: empty, with nested objects
\* in two key orders, with objects inside an array in two key orders, with
\* an array in two element orders, and with characters beyond ASCII.
SigningBodies == {
  JsonObject(<<>>),
  JsonObject(<<Member(<<"k","e","y">>, JsonString(<<"v","a","l","u","e">>))>>),
  JsonObject(<<Member(<<"k","e","y">>, JsonString(<<"o","t","h","e","r">>))>>),
  JsonObject(<<Member(<<"k","e","y">>, JsonString(<<"v","a","l","u","e">>)), Member(<<"k","e","y","2">>, JsonObject(<<Member(<<"z">>, JsonString(<<"z">>)), Member(<<"y">>, JsonString(<<"y">>))>>))>>),
  JsonObject(<<Member(<<"k","e","y","2">>, JsonObject(<<Member(<<"y">>, JsonString(<<"y">>)), Member(<<"z">>, JsonString(<<"z">>))>>)), Member(<<"k","e","y">>, JsonString(<<"v","a","l","u","e">>))>>),
  JsonObject(<<Member(<<"i","t","e","m","s">>, JsonArray(<<JsonObject(<<Member(<<"b">>, JsonString(<<"1">>)), Member(<<"a">>, JsonString(<<"2">>))>>)>>))>>),
  JsonObject(<<Member(<<"i","t","e","m","s">>, JsonArray(<<JsonObject(<<Member(<<"a">>, JsonString(<<"2">>)), Member(<<"b">>, JsonString(<<"1">>))>>)>>))>>),
  JsonObject(<<Member(<<"l","i","s","t">>, JsonArray(<<JsonString(<<"x">>), JsonString(<<"y">>)>>))>>),
  JsonObject(<<Member(<<"l","i","s","t">>, JsonArray(<<JsonString(<<"y">>), JsonString(<<"x">>)>>))>>),
  JsonObject(<<Member(<<"m","e","s","s","a","g","e">>, JsonString(<<"<U+3053>","<U+3093>">>))>>),
  JsonObject(<<Member(<<"m","e","s","s","a","g","e">>, JsonString(<<"<U+0153>","<U+3093>">>))>>),
  JsonObject(<<Member(<<"m","e","s","s","a","g","e">>, JsonString(<<"<U+00E9>">>))>>) }

\* The method and body of the requests that are signed: fetch accepts a
\* body only with a method other than GET.
SigningConfigs ==
  { [httpMethod |-> method, data |-> JsonUndefined] : method \in {<<"GET">>, <<"POST">>} }
  \cup { [httpMethod |-> method, data |-> body] :
           method \in {<<"POST">>, <<"PUT">>}, body \in SigningBodies }

\* What generateNonce returns in the signing tests, where it is replaced.
SigningNonces == { <<"abc">>, <<"unicodeNonce">> }

\* new ApiXRequest(config), at any time of the clock, with a key store
\* that returns its keys at once.
SigningInit ==
  /\ url \in SigningUrls
  /\ \E c \in SigningConfigs : httpMethod = c.httpMethod /\ data = c.data
  /\ keyStore = [getApiKey |-> "sync", getAppKey |-> "sync",
                 apiKey |-> <<"testApiKey">>, appKey |-> <<"testAppKey">>]
  /\ now \in 0..MaxClock
  /\ protectedHeaders = EmptyRecord
  /\ readOnlyHeaders = initializeReadOnlyHeaders(EmptyRecord, DateString(now))
  /\ unprotectedHeaders = EmptyRecord
  /\ sent = FALSE
  /\ cookiesStore = <<>>
  /\ pc = "idle"
  /\ fetchCalls = 0
  /\ fetchArgs = NoFetchArgs
  /\ response = NoResponse
  /\ outcome = NoOutcome
  /\ last = NoCall
  /\ keyStoreCalls = NoKeyStoreCalls
  /\ CryptoIdle

\* The request is sent, and signed on the way, up to the await of fetch.
SigningNext ==
  \/ \E nonce \in SigningNonces : make(nonce)
  \/ fetchReturns

SigningSpec == SigningInit /\ [][SigningNext]_vars

\* Two JSON values have the same content: the same members whatever their
\* order, the same elements in the same order, the same scalar.
RECURSIVE SameContent(_, _)
SameContent(a, b) ==
  /\ a.t = b.t
  /\ CASE a.t = "object" ->
            /\ Len(a.m) = Len(b.m)
            /\ \A i \in DOMAIN a.m : \E j \in DOMAIN b.m :
                 a.m[i].k = b.m[j].k /\ SameContent(a.m[i].v, b.m[j].v)
       [] a.t = "array" ->
            /\ Len(a.m) = Len(b.m)
            /\ \A i \in DOMAIN a.m : SameContent(a.m[i], b.m[i])
       [] OTHER -> a.s = b.s

\* A body that has members.
HasContent(body) == body.t = "object" /\ Len(body.m) > 0

\* The signature a request with the given fields is given under the
\* application key of the key store.
SignatureOf(u, method, body, dateString, nonce) ==
  HmacSha256Hex(keyStore.appKey, canonicalMessage(u, method, body, dateString, nonce))

\* The signature, the nonce and the date handed to the transport.
SentSignature == fetchArgs.headers[KeySignature]

SentNonce == fetchArgs.headers[KeySignatureNonce]

SentDate == fetchArgs.headers[KeyDate]

\* C14: a request whose body has the same content as this one's, in another
\* key order at any depth (inside the objects of an array too), with the
\* same path, query, method, nonce, date and application key, is given the
\* signature this request is sent with.
C14_KeyOrderIrrelevant ==
  pc = "fetchCall" =>
    \A other \in SigningBodies :
      SameContent(data, other) =>
        SignatureOf(url, httpMethod, other, SentDate, SentNonce) = SentSignature

\* C15: a request that differs from this one in exactly one of method,
\* path, query, nonce, date or body content is given another signature
\* than the one this request is sent with.
C15_EveryFieldSigned ==
  pc = "fetchCall" =>
    /\ \A u \in SigningUrls :
         ((u.pathname # url.pathname) # (u.search # url.search)) =>
           SignatureOf(u, httpMethod, data, SentDate, SentNonce) # SentSignature
    /\ \A method \in {<<"GET">>, <<"POST">>, <<"PUT">>} \ {httpMethod} :
         SignatureOf(url, method, data, SentDate, SentNonce) # SentSignature
    /\ \A nonce \in SigningNonces \ {SentNonce} :
         SignatureOf(url, httpMethod, data, SentDate, nonce) # SentSignature
    /\ \A t \in 0..MaxClock :
         DateString(t) # SentDate =>
           SignatureOf(url, httpMethod, data, DateString(t), SentNonce) # SentSignature
    /\ \A other \in SigningBodies :
         (~SameContent(data, other) /\ (HasContent(data) \/ HasContent(other))) =>
           SignatureOf(url, httpMethod, other, SentDate, SentNonce) # SentSignature

\* The message up to the body: path, query, method, nonce and date, each
\* followed by a dot.
MessageHead ==
  url.pathname \o url.search \o <<".">> \o httpMethod \o <<".">> \o SentNonce
    \o <<".">> \o readOnlyHeaders[KeyDate] \o <<".">>

\* C16: the signature the request is sent with is the HMAC-SHA256, keyed
\* by the application key, of path + query + '.' + METHOD + '.' + nonce +
\* '.' + date + '.' + base64Body, base64Body being made of base64
\* characters and empty when the request has no body; computing the
\* signature again from the same inputs gives the same signature.
C16_CanonicalMessageSigned ==
  pc = "fetchCall" =>
    LET signedHead == HmacSha256Hex(keyStore.appKey, MessageHead)
        n == Len(signedHead)
    IN /\ Len(SentSignature) >= n
       /\ SubSeq(SentSignature, 1, n) = signedHead
       /\ \A i \in (n + 1)..Len(SentSignature) :
            \E j \in DOMAIN Base64Alphabet : SentSignature[i] \in {Base64Alphabet[j], "="}
       /\ data.t = "undefined" => SentSignature = signedHead
       /\ generateSignature(keyStore.appKey, SentDate, SentNonce).value = SentSignature

\* C16 witness: GET https://x/y?z=1 without a body, nonce 'abc', date
\* 'Wed, 13 Nov 2024 15:00:00 GMT', is sent signed with the HMAC of
\* '/y?z=1.GET.abc.Wed, 13 Nov 2024 15:00:00 GMT.'.
C16_Witness ==
  /\ pc = "fetchCall"
  /\ fetchArgs.url = <<"https://x", "/y", "?z=1">>
  /\ fetchArgs.method = <<"GET">>
  /\ ~fetchArgs.hasBody
  /\ SentSignature =
       <<"hmac-sha256:", "testAppKey", "|", "/y", "?z=1", ".", "GET", ".", "abc", ".",
         "Wed, 13 Nov 2024 15:00:0", "0", " GMT", ".">>

\* C17: for a body that has members, the body part of the signed message
\* is the base64 encoding of the UTF-8 bytes of the key-sorted JSON string
\* of the body.
C17_BodyIsUtf8Base64 ==
  (pc = "fetchCall" /\ HasContent(data)) =>
    SentSignature =
      HmacSha256Hex(keyStore.appKey,
        MessageHead \o Base64(Utf8Bytes(JsonStringify(sortedObjectKeys(data)))))

\* The caller's names that are neither protected nor read-only.
FreeNameInputs == HeaderNameInputs \ (ProtectedNameInputs \cup ReadOnlyNameInputs)

\* Two names are equal up to letter case and surrounding whitespace.
SameHeaderName(a, b) == ToLowerCase(Trim(a)) = ToLowerCase(Trim(b))

\* C18: for every free name n and every string value v, after
\* setHeader(n, v) header(n') returns v for every n' equal to n up to
\* letter case and surrounding whitespace, and after unsetHeader(n')
\* header(n) returns undefined.
C18_FreeHeadersLastWriteWins ==
  [][ \A n \in FreeNameInputs, other \in FreeNameInputs :
        SameHeaderName(n, other) =>
          /\ \A v \in HeaderValueInputs :
               setHeader(n, v) =>
                 (header(other))' = [threw |-> FALSE, error |-> NoError, value |-> v]
          /\ unsetHeader(other) =>
               (header(n))' = [threw |-> FALSE, error |-> NoError, value |-> Undefined] ]_vars

\* ------------------------------------------------------ cookies, on their own

\* The cookies the caller adds and removes: two names that are words, two
\* that are numbers.
CookieJarInputs == {
  <<<<"session">>, <<"12345">>>>,
  <<<<"session">>, <<"67890">>>>,
  <<<<"user">>, <<"Alice">>>>,
  <<<<"1","0">>, <<"ten">>>>,
  <<<<"2">>, <<"two">>>> }

\* The records the caller passes to setCookies, as entries in property
\* order.
CookieJarRecords == {
  << [name |-> <<"session">>, value |-> <<"12345">>],
     [name |-> <<"token">>, value |-> <<"abcdef">>] >>,
  << [name |-> <<"2">>, value |-> <<"deux">>],
     [name |-> <<"user">>, value |-> <<"Bob">>] >> }

\* new ApiXRequest(config), of the test's config.
CookieJarInit ==
  /\ url \in Urls
  /\ httpMethod = <<"POST">>
  /\ data = JsonObject(<<Member(<<"k","e","y">>, JsonString(<<"v","a","l","u","e">>))>>)
  /\ keyStore = [getApiKey |-> "sync", getAppKey |-> "sync",
                 apiKey |-> <<"testApiKey">>, appKey |-> <<"testAppKey">>]
  /\ now = 0
  /\ protectedHeaders = EmptyRecord
  /\ readOnlyHeaders = initializeReadOnlyHeaders(EmptyRecord, DateString(now))
  /\ unprotectedHeaders = EmptyRecord
  /\ sent = FALSE
  /\ cookiesStore = <<>>
  /\ pc = "idle"
  /\ fetchCalls = 0
  /\ fetchArgs = NoFetchArgs
  /\ response = NoResponse
  /\ outcome = NoOutcome
  /\ last = NoCall
  /\ keyStoreCalls = NoKeyStoreCalls
  /\ CryptoIdle

CookieJarNext ==
  \/ \E cookies \in CookieJarRecords : setCookies(cookies)
  \/ \E cookie \in CookieJarInputs : addCookie(cookie[1], cookie[2])
  \/ \E cookie \in CookieJarInputs : removeCookie(cookie[1])

CookieJarSpec == CookieJarInit /\ [][CookieJarNext]_vars

\* The cookies in the order their names were first inserted, after a write
\* of one cookie: the value of a stored name is replaced where it is, a new
\* name goes last.
RECURSIVE WriteInOrder(_, _, _)
WriteInOrder(cookies, name, value) ==
  IF cookies = <<>> THEN <<[name |-> name, value |-> value]>>
  ELSE IF Head(cookies).name = name
       THEN <<[name |-> name, value |-> value]>> \o Tail(cookies)
       ELSE <<Head(cookies)>> \o WriteInOrder(Tail(cookies), name, value)

\* The same after the writes of a record, one entry after the other.
RECURSIVE WriteAllInOrder(_, _)
WriteAllInOrder(cookies, record) ==
  IF record = <<>> THEN cookies
  ELSE WriteAllInOrder(WriteInOrder(cookies, Head(record).name, Head(record).value),
                       Tail(record))

\* The cookies without the one of the given name.
Without(cookies, name) ==
  SelectSeq(cookies, LAMBDA cookie : cookie.name # name)

\* The Cookie header of cookies in a given order.
CookieHeaderOf(cookies) == getCookieHeader(cookies)

\* C19: after every setCookies, addCookie and removeCookie, the Cookie
\* header is the 'name=value' pairs, joined by '; ', of the cookies stored
\* before, with the written names given their new values (a new name
\* coming last, a stored name keeping its place) or the removed name left
\* out, and getCookie returns the last value written under each name.
C19_CookiesInInsertionOrder ==
  [][ /\ \A cookie \in CookieJarInputs :
           /\ addCookie(cookie[1], cookie[2]) =>
                CookieHeaderOf(cookiesStore') =
                  CookieHeaderOf(WriteInOrder(cookiesStore, cookie[1], cookie[2]))
           /\ removeCookie(cookie[1]) =>
                CookieHeaderOf(cookiesStore') = CookieHeaderOf(Without(cookiesStore, cookie[1]))
      /\ \A record \in CookieJarRecords :
           setCookies(record) =>
             CookieHeaderOf(cookiesStore') =
               CookieHeaderOf(WriteAllInOrder(cookiesStore, record)) ]_vars

\* C20: for a request whose cookie store is empty when it is sent, the
\* header set handed to the transport contains no Cookie entry.
C20_NoCookieHeaderWithoutCookies ==
  (pc = "fetchCall" /\ cookiesStore = <<>>) => HdrCookie \notin DOMAIN fetchArgs.headers

\* ------------------------------------------------- claims C27 to C30

\* C27: one make() retrieves both secrets with a single retrieval from the
\* key store, a single call of getKeys(), and calls neither getApiKey()
\* nor getAppKey().
C27_SingleKeyRetrieval ==
  /\ keyStoreCalls.getApiKey + keyStoreCalls.getAppKey = 0
  /\ keyStoreCalls.getKeys = (IF sent THEN 1 ELSE 0)

\* The key store of this request throws when make() asks it for a secret.
KeyStoreThrows == "throws" \in {keyStore.getApiKey, keyStore.getAppKey}

C29_OneEntryPerHeaderName ==
  pc = "fetchCall" =>
    \A k1 \in DOMAIN fetchArgs.headers : \A k2 \in DOMAIN fetchArgs.headers :
      ToLowerCase(Trim(k1)) = ToLowerCase(Trim(k2)) => k1 = k2

\* C30: the body part of the signed message is the empty string exactly
\* when make() passes no body to fetch.
C30_SignedAndSentBodyAgree ==
  pc = "fetchCall" =>
    ((signatureMessage(SentDate, SentNonce) = MessageHead) <=> ~fetchArgs.hasBody)

\* ------------------------------------------ ApiXSymmetricEncryptionService

\* The length of a key buffer the ciphers accept, and of the string a key
\* is padded and cut to.
KeyLength == 32

\* The bytes of a ChaCha20-Poly1305 nonce and an AES-GCM iv, of an AES-CTR
\* iv, of a Poly1305 / GCM tag and of an HMAC-SHA256.
AeadNonceBytes == 12

CtrIvBytes == 16

AeadTagBytes == 16

HmacBytes == 32

\* How many different values randomBytes is taken to return.
MaxRandom == 2

\* randomBytes(n)
randomBytes(n) == { Nonce(n, id) : id \in 1..MaxRandom }

\* chars.padEnd(n, pad)
PadEnd(chars, n, pad) ==
  IF Len(chars) >= n THEN chars ELSE chars \o [i \in 1..(n - Len(chars)) |-> pad]

\* chars.slice(0, n)
Slice(chars, n) == IF Len(chars) <= n THEN chars ELSE SubSeq(chars, 1, n)

\* Buffer.from(key.padEnd(32, '0').slice(0, 32)): the UTF-8 bytes of the
\* key padded with the character '0' and cut to 32 UTF-16 code units.
normalizeKey(key) == Utf8Bytes(Slice(PadEnd(key, KeyLength, "0"), KeyLength))

\* The character with the given code unit; U+FFFD when there is none.
CharOf(code) ==
  IF \E c \in DOMAIN CodeOf : CodeOf[c] = code
  THEN CHOOSE c \in DOMAIN CodeOf : CodeOf[c] = code
  ELSE "<U+FFFD>"

RECURSIVE Latin1Decode(_)
Latin1Decode(bytes) ==
  IF bytes = <<>> THEN <<>>
  ELSE <<CharOf(Head(bytes))>> \o Latin1Decode(Tail(bytes))

\* The string that bytes are the UTF-8 encoding of (sequences of one, two
\* and three bytes); a byte that starts no sequence reads U+FFFD.
RECURSIVE Utf8Decode(_)
Utf8Decode(bytes) ==
  IF bytes = <<>> THEN <<>>
  ELSE LET b == Head(bytes)
       IN IF b < 128
          THEN <<CharOf(b)>> \o Utf8Decode(Tail(bytes))
          ELSE IF b >= 192 /\ b < 224 /\ Len(bytes) >= 2
          THEN <<CharOf(((b - 192) * 64) + (bytes[2] - 128))>>
               \o Utf8Decode(SubSeq(bytes, 3, Len(bytes)))
          ELSE IF b >= 224 /\ b < 240 /\ Len(bytes) >= 3
          THEN <<CharOf(((b - 224) * 4096) + ((bytes[2] - 128) * 64) + (bytes[3] - 128))>>
               \o Utf8Decode(SubSeq(bytes, 4, Len(bytes)))
          ELSE <<"<U+FFFD>">> \o Utf8Decode(Tail(bytes))

\* The errors of node:crypto and of the handlers.
InvalidKeyLength == PlatformError("RangeError", <<"Invalid key length">>)

InvalidAuthTagLength == PlatformError("TypeError", <<"Invalid authentication tag length">>)

UnableToAuthenticate ==
  PlatformError("Error", <<"Unsupported state or unable to authenticate data">>)

AuthenticationFailed ==
  PlatformError("Error", <<"Authentication failed: Data may have been tampered with">>)

\* createCipheriv / createDecipheriv accept a key of 32 bytes only.
validKeyLength(keyBuffer) == Len(keyBuffer) = KeyLength

\* The tag lengths decipher.setAuthTag accepts when the decipher was created
\* without authTagLength: 16 bytes for chacha20-poly1305, and for
\* aes-256-gcm every length GCM allows.
validAuthTagLengths(cipher) ==
  IF cipher = "aes-256-gcm" THEN {4, 8, 12, 13, 14, 15, 16} ELSE {AeadTagBytes}

expectedAuthTagUnkeyed(kind, keyBuffer, iv, ciphertext, bytes) ==
  AuthTag(kind, <<>>, iv, ciphertext, bytes)

\* The tag of a ciphertext: cipher.getAuthTag() of the two AEAD ciphers,
\* and the HMAC-SHA256, keyed by the key buffer, of iv then ciphertext.
expectedAuthTag(kind, keyBuffer, iv, ciphertext, bytes) ==
  AuthTag(kind, keyBuffer, iv, ciphertext, bytes)

\* decipher.final() verifies the tag it was given: the bytes given are the
\* first bytes of the tag of what was deciphered.
authTagVerifies(given, expected) ==
  /\ given.mac = expected.mac
  /\ ~given.altered
  /\ given.bytes <= expected.bytes

\* What a decipher makes of a ciphertext: the data when key and iv are those
\* of the cipher and no byte was changed, other bytes otherwise.
decipherBytes(ciphertext, cipher, keyBuffer, iv) ==
  IF /\ ciphertext.cipher = cipher
     /\ ciphertext.key = keyBuffer
     /\ ciphertext.iv = iv
     /\ ~ciphertext.altered
  THEN ciphertext.data
  ELSE <<255>>

\* What decrypt did: the key buffer it made, and the error it threw or the
\* string it returned.
Decrypted(keyBuffer, error, value) == [keyBuffer |-> keyBuffer, error |-> error, value |-> value]

\* encrypt of ChaChaEncryptionHandler and AESGCMEncryptionHandler, which
\* differ in the cipher only; iv is what randomBytes(12) returned.
AeadEncrypt(cipher, chars, key, iv) ==
  LET keyBuffer == normalizeKey(key)
      encrypted == Ciphertext(cipher, keyBuffer, iv, Utf8Bytes(chars))
      authTag == expectedAuthTag(cipher, keyBuffer, iv, encrypted, AeadTagBytes)
  IN IF ~validKeyLength(keyBuffer)
     THEN Sealed(keyBuffer, InvalidKeyLength, NoEnvelope)
     ELSE Sealed(keyBuffer, NoError, Envelope(encrypted, iv, authTag))

\* decrypt of ChaChaEncryptionHandler and AESGCMEncryptionHandler.
AeadDecrypt(cipher, env, key) ==
  LET keyBuffer == normalizeKey(key)
      expected == expectedAuthTag(cipher, keyBuffer, env.iv, env.encrypted, AeadTagBytes)
  IN IF ~validKeyLength(keyBuffer)
     THEN Decrypted(keyBuffer, InvalidKeyLength, <<>>)
     ELSE IF env.authTag.bytes \notin validAuthTagLengths(cipher)
     THEN Decrypted(keyBuffer, InvalidAuthTagLength, <<>>)
     ELSE IF ~authTagVerifies(env.authTag, expected)
     THEN Decrypted(keyBuffer, UnableToAuthenticate, <<>>)
     ELSE Decrypted(keyBuffer, NoError,
                    Utf8Decode(decipherBytes(env.encrypted, cipher, keyBuffer, env.iv)))

ChaChaEncrypt(chars, key, nonce) == AeadEncrypt("chacha20-poly1305", chars, key, nonce)

ChaChaDecrypt(env, key) == AeadDecrypt("chacha20-poly1305", env, key)

AESGCMEncrypt(chars, key, iv) == AeadEncrypt("aes-256-gcm", chars, key, iv)

AESGCMDecrypt(env, key) == AeadDecrypt("aes-256-gcm", env, key)

\* AESCTREncryptionHandler.encrypt; iv is what randomBytes(16) returned.
AESCTREncrypt(chars, key, iv) ==
  LET keyBuffer == normalizeKey(key)
      encrypted == Ciphertext("aes-256-ctr", keyBuffer, iv, Utf8Bytes(chars))
      authTag == expectedAuthTag("hmac-sha256", keyBuffer, iv, encrypted, HmacBytes)
  IN IF ~validKeyLength(keyBuffer)
     THEN Sealed(keyBuffer, InvalidKeyLength, NoEnvelope)
     ELSE Sealed(keyBuffer, NoError, Envelope(encrypted, iv, authTag))

\* AESCTREncryptionHandler.decrypt: the hex strings of the tags are compared
\* before the decipher is created.
AESCTRDecrypt(env, key) ==
  LET keyBuffer == normalizeKey(key)
      expectedAuthTagHex ==
        expectedAuthTag("hmac-sha256", keyBuffer, env.iv, env.encrypted, HmacBytes)
  IN IF env.authTag # expectedAuthTagHex
     THEN Decrypted(keyBuffer, AuthenticationFailed, <<>>)
     ELSE IF ~validKeyLength(keyBuffer)
     THEN Decrypted(keyBuffer, InvalidKeyLength, <<>>)
     ELSE Decrypted(keyBuffer, NoError,
                    Utf8Decode(decipherBytes(env.encrypted, "aes-256-ctr", keyBuffer, env.iv)))

\* The algorithms the constructor accepts, and the handler of each.
Algorithms == {"fast", "balanced", "secure"}

\* The bytes of the iv or nonce the handler of an algorithm draws.
ivBytes(alg) == IF alg = "balanced" THEN CtrIvBytes ELSE AeadNonceBytes

\* ApiXSymmetricEncryptionService.encrypt, with iv what randomBytes returns.
serviceEncrypt(alg, chars, key, iv) ==
  CASE alg = "fast" -> ChaChaEncrypt(chars, key, iv)
    [] alg = "balanced" -> AESCTREncrypt(chars, key, iv)
    [] alg = "secure" -> AESGCMEncrypt(chars, key, iv)

\* ApiXSymmetricEncryptionService.decrypt
serviceDecrypt(alg, env, key) ==
  CASE alg = "fast" -> ChaChaDecrypt(env, key)
    [] alg = "balanced" -> AESCTRDecrypt(env, key)
    [] alg = "secure" -> AESGCMDecrypt(env, key)

\* The request variables, which no operation of the encryption service and
\* of the encrypted key store reads or writes.
request == <<config, headerMaps, cookiesStore, now, sendState, last, keyStoreCalls>>

\* No request is in use.
RequestIdle ==
  /\ url \in Urls
  /\ httpMethod = <<"GET">>
  /\ data = JsonUndefined
  /\ keyStore = [getApiKey |-> "sync", getAppKey |-> "sync",
                 apiKey |-> <<"testApiKey">>, appKey |-> <<"testAppKey">>]
  /\ now = 0
  /\ protectedHeaders = EmptyRecord
  /\ readOnlyHeaders = initializeReadOnlyHeaders(EmptyRecord, DateString(now))
  /\ unprotectedHeaders = EmptyRecord
  /\ sent = FALSE
  /\ cookiesStore = <<>>
  /\ pc = "idle"
  /\ fetchCalls = 0
  /\ fetchArgs = NoFetchArgs
  /\ response = NoResponse
  /\ outcome = NoOutcome
  /\ last = NoCall
  /\ keyStoreCalls = NoKeyStoreCalls

\* The keys encrypt and decrypt are called with: the key of the tests and
\* their wrong key, a short key and the same key followed by '0', a key of
\* 32 characters and two keys that continue it, and a key with a character
\* beyond ASCII.
TestKey == <<"t","e","s","t","K","e","y","1","2","3","4","5","6","7","8","9","0","1","2","3","4","5","6","7","8","9","0">>

WrongKey == <<"w","r","o","n","g","K","e","y","1","2","3","4","5","6","7","8","9","0","1","2","3","4","5","6","7","8","9","0">>

ShortKey == <<"a","b","c">>

ShortKeyZero == <<"a","b","c","0">>

LongKey == <<"0","1","2","3","4","5","6","7","8","9","a","b","c","d","e","f","0","1","2","3","4","5","6","7","8","9","a","b","c","d","e","f">>

LongKeyX == LongKey \o <<"X">>

LongKeyY == LongKey \o <<"Y">>

AccentKey == <<"c","l","<U+00E9>">>

KeyInputs == { TestKey, WrongKey, ShortKey, ShortKeyZero, LongKey, LongKeyX, LongKeyY,
               AccentKey }

\* The strings encrypt is called with.
DataInputs == { <<>>, <<"H","e","l","l","o",","," ","W","o","r","l","d","!">>, <<"h","<U+00E9>","l","l","o"," ","<U+3053>","<U+3093>">> }

\* What becomes of an envelope between encrypt and decrypt: a byte of the
\* ciphertext, of the iv or of the tag is changed, or the tag is cut to its
\* first 12 or 4 bytes.
Alterations == { "encrypted", "iv", "authTag", "authTag12", "authTag4" }

Altered(env, kind) ==
  CASE kind = "encrypted" -> [env EXCEPT !.encrypted.altered = TRUE]
    [] kind = "iv" -> [env EXCEPT !.iv.altered = TRUE]
    [] kind = "authTag" -> [env EXCEPT !.authTag.altered = TRUE]
    [] kind = "authTag12" -> [env EXCEPT !.authTag.bytes = 12]
    [] kind = "authTag4" -> [env EXCEPT !.authTag.bytes = 4]

\* encryptionService.encrypt(plaintext, secretKey)
encrypt(iv) ==
  /\ sealed.op = "none"
  /\ sealed' = serviceEncrypt(algorithm, plaintext, secretKey, iv)
  /\ envelope' = sealed'.envelope
  /\ UNCHANGED <<request, algorithm, plaintext, secretKey, decrypted, providerKey,
                 secrets, got>>

\* The envelope is changed on its way to decrypt.
alter(kind) ==
  /\ sealed.op = "encrypt"
  /\ ~sealed.threw
  /\ envelope = sealed.envelope
  /\ envelope' = Altered(envelope, kind)
  /\ UNCHANGED <<request, algorithm, plaintext, secretKey, sealed, decrypted,
                 providerKey, secrets, got>>

\* encryptionService.decrypt(envelope, key)
decrypt(key) ==
  /\ sealed.op = "encrypt"
  /\ ~sealed.threw
  /\ LET d == serviceDecrypt(algorithm, envelope, key)
     IN decrypted' = Result("decrypt", envelope, key, d.keyBuffer, 0, d.error, d.value)
  /\ UNCHANGED <<request, algorithm, plaintext, secretKey, sealed, envelope,
                 providerKey, secrets, got>>

\* new ApiXSymmetricEncryptionService(algorithm), and the arguments encrypt
\* will be called with.
EncryptionInit ==
  /\ RequestIdle
  /\ algorithm \in Algorithms
  /\ plaintext \in DataInputs
  /\ secretKey \in KeyInputs
  /\ sealed = NotSealed
  /\ envelope = NoEnvelope
  /\ decrypted = NoResult
  /\ providerKey = <<>>
  /\ secrets = NoSecrets
  /\ got = NoResult

EncryptionNext ==
  \/ \E iv \in randomBytes(ivBytes(algorithm)) : encrypt(iv)
  \/ \E kind \in Alterations : alter(kind)
  \/ \E key \in KeyInputs : decrypt(key)

EncryptionSpec == EncryptionInit /\ [][EncryptionNext]_vars

\* ------------------------------------------------- claims C21 to C24

\* decrypt was called with the envelope as encrypt returned it.
DecryptedSealed ==
  /\ sealed.op = "encrypt"
  /\ ~sealed.threw
  /\ decrypted.op = "decrypt"
  /\ decrypted.input = sealed.envelope

\* C21: with each algorithm, for every key and every string, encrypt returns
\* an envelope, and decrypt of that envelope with the same key returns the
\* string.
C21_RoundTrip ==
  /\ sealed.op = "encrypt" => ~sealed.threw
  /\ (DecryptedSealed /\ decrypted.key = secretKey) =>
       (~decrypted.threw /\ decrypted.value = plaintext)

KeyCharacters(key) == Slice(PadEnd(key, KeyLength, "0"), KeyLength)

ZeroPadded(bytes) ==
  IF Len(bytes) >= KeyLength THEN SubSeq(bytes, 1, KeyLength)
  ELSE bytes \o [i \in 1..(KeyLength - Len(bytes)) |-> 0]

\* C23: the key buffer encrypt and decrypt make of a key has 32 bytes: the
\* bytes of the key followed by zero bytes, or the first 32 bytes of the key.
C23_KeyBufferZeroPadded ==
  /\ sealed.op = "encrypt" =>
       /\ Len(sealed.keyBuffer) = KeyLength
       /\ sealed.keyBuffer = ZeroPadded(Utf8Bytes(secretKey))
  /\ decrypted.op = "decrypt" =>
       /\ Len(decrypted.keyBuffer) = KeyLength
       /\ decrypted.keyBuffer = ZeroPadded(Utf8Bytes(decrypted.key))

\* C24: decrypt of an envelope whose ciphertext, iv or tag is not what
\* encrypt returned throws and returns no string, with whatever key; with
\* the balanced algorithm it throws 'Authentication failed: Data may have
\* been tampered with'.
C24_AlteredEnvelopeRejected ==
  (/\ sealed.op = "encrypt"
   /\ decrypted.op = "decrypt"
   /\ decrypted.input # sealed.envelope) =>
    /\ decrypted.threw
    /\ decrypted.value = <<>>
    /\ algorithm = "balanced" => decrypted.error = AuthenticationFailed

\* ----------------------------------------------------- ApiXEncryptedKeyStore

\* What JSON.parse did: ok and the value, or not ok when it threw.
Parsed(ok, value, rest) == [ok |-> ok, value |-> value, rest |-> rest]

\* The string that starts after an opening quote: its characters up to the
\* closing quote, \" and \\ unescaped (the escapes Quote writes).
RECURSIVE ParseString(_, _)
ParseString(chars, acc) ==
  IF chars = <<>> THEN Parsed(FALSE, acc, <<>>)
  ELSE IF Head(chars) = "\"" THEN Parsed(TRUE, acc, Tail(chars))
  ELSE IF Head(chars) = "\\"
  THEN IF Len(chars) >= 2 /\ chars[2] \in {"\"", "\\"}
       THEN ParseString(SubSeq(chars, 3, Len(chars)), Append(acc, chars[2]))
       ELSE Parsed(FALSE, acc, <<>>)
  ELSE ParseString(Tail(chars), Append(acc, Head(chars)))

\* The members "key":"value" of an object, separated by commas, up to the
\* closing brace, which ends the text.
RECURSIVE ParseMembers(_, _)
ParseMembers(chars, acc) ==
  IF chars = <<>> \/ Head(chars) # "\"" THEN Parsed(FALSE, acc, <<>>)
  ELSE LET key == ParseString(Tail(chars), <<>>)
       IN IF ~key.ok \/ Len(key.rest) < 2 \/ SubSeq(key.rest, 1, 2) # <<":", "\"">>
          THEN Parsed(FALSE, acc, <<>>)
          ELSE LET value == ParseString(SubSeq(key.rest, 3, Len(key.rest)), <<>>)
                   members == Append(acc, Member(key.value, JsonString(value.value)))
               IN IF ~value.ok \/ value.rest = <<>> THEN Parsed(FALSE, acc, <<>>)
                  ELSE IF value.rest = <<"}">> THEN Parsed(TRUE, members, <<>>)
                  ELSE IF Head(value.rest) = ","
                  THEN ParseMembers(Tail(value.rest), members)
                  ELSE Parsed(FALSE, acc, <<>>)

\* JSON.parse of a text: of the texts JSON.stringify writes for an object
\* whose values are strings; not ok for a text that is no JSON.
JsonParse(chars) ==
  IF chars = <<"{", "}">> THEN Parsed(TRUE, JsonObject(<<>>), <<>>)
  ELSE IF chars = <<>> \/ Head(chars) # "{" THEN Parsed(FALSE, JsonUndefined, <<>>)
  ELSE LET members == ParseMembers(Tail(chars), <<>>)
       IN Parsed(members.ok, JsonObject(members.value), <<>>)

JsonSyntaxError == PlatformError("SyntaxError", <<"Unexpected token">>)

\* object[key] of a parsed object whose values are strings: the value of
\* the last member with that key, undefined when there is none.
RECURSIVE Property(_, _)
Property(members, key) ==
  IF members = <<>> THEN Undefined
  ELSE IF members[Len(members)].k = key THEN members[Len(members)].v.s
  ELSE Property(SubSeq(members, 1, Len(members) - 1), key)

ApiKeyField == <<"a","p","i","K","e","y">>

AppKeyField == <<"a","p","p","K","e","y">>

\* JSON.stringify({apiKey, appKey})
stringifyKeys(apiKey, appKey) ==
  JsonStringify(JsonObject(<<Member(ApiKeyField, JsonString(apiKey)),
                             Member(AppKeyField, JsonString(appKey))>>))

\* The secrets a store is constructed with: those of the tests, a pair with
\* a quote, a backslash and a character beyond ASCII, and an empty apiKey.
SecretsInputs == {
  [apiKey |-> <<"t","e","s","t","A","p","i","K","e","y">>, appKey |-> <<"t","e","s","t","A","p","p","K","e","y">>],
  [apiKey |-> <<"a","\"","b","\\","c">>, appKey |-> <<"c","l","<U+00E9>">>],
  [apiKey |-> <<>>, appKey |-> <<"x">>] }

\* The keys the key provider returns: the key of the tests, another key,
\* a short key and the same key followed by '0', and a key with a
\* character beyond ASCII.
ProviderKeys == { TestKey, WrongKey, ShortKey, ShortKeyZero, AccentKey }

getKeyAtConstruction == secretKey

\* keyProvider.getKey()
getKey == providerKey

\* new ApiXEncryptedKeyStore(encryptionService, keyProvider, apiKey, appKey),
\* secrets being apiKey and appKey: encryptedKeys is the envelope encrypt
\* returns; when encrypt throws the constructor throws.
construct(iv) ==
  /\ sealed.op = "none"
  /\ plaintext' = stringifyKeys(secrets.apiKey, secrets.appKey)
  /\ secretKey' = getKey
  /\ sealed' = serviceEncrypt(algorithm, plaintext', secretKey', iv)
  /\ envelope' = sealed'.envelope
  /\ UNCHANGED <<request, algorithm, decrypted, providerKey, secrets, got>>

\* getApiKey() and getAppKey(), which differ in the field they return.
getSecret(op, field) ==
  /\ sealed.op = "encrypt"
  /\ ~sealed.threw
  /\ LET key == getKey
         d == serviceDecrypt(algorithm, envelope, key)
         decryptedJsonObject == JsonParse(d.value)
     IN got' =
          IF d.error # NoError
          THEN Result(op, envelope, key, d.keyBuffer, 1, d.error, <<>>)
          ELSE IF ~decryptedJsonObject.ok
          THEN Result(op, envelope, key, d.keyBuffer, 1, JsonSyntaxError, <<>>)
          ELSE Result(op, envelope, key, d.keyBuffer, 1, NoError,
                      Property(decryptedJsonObject.value.m, field))
  /\ UNCHANGED <<request, algorithm, plaintext, secretKey, sealed, envelope, decrypted,
                 providerKey, secrets>>

getApiKey == getSecret("getApiKey", ApiKeyField)

getAppKey == getSecret("getAppKey", AppKeyField)

\* The key provider derives another key from now on.
keyChanges(key) ==
  /\ sealed.op = "encrypt"
  /\ ~sealed.threw
  /\ providerKey # key
  /\ providerKey' = key
  /\ UNCHANGED <<request, algorithm, plaintext, secretKey, sealed, envelope, decrypted,
                 secrets, got>>

\* The arguments the constructor will be called with.
EncryptedKeyStoreInit ==
  /\ RequestIdle
  /\ algorithm \in Algorithms
  /\ providerKey \in ProviderKeys
  /\ secrets \in SecretsInputs
  /\ plaintext = <<>>
  /\ secretKey = <<>>
  /\ sealed = NotSealed
  /\ envelope = NoEnvelope
  /\ decrypted = NoResult
  /\ got = NoResult

EncryptedKeyStoreNext ==
  \/ \E iv \in randomBytes(ivBytes(algorithm)) : construct(iv)
  \/ getApiKey
  \/ getAppKey
  \/ \E key \in ProviderKeys : keyChanges(key)

EncryptedKeyStoreSpec == EncryptedKeyStoreInit /\ [][EncryptedKeyStoreNext]_vars

\* ------------------------------------------------- claims C25 and C26

\* The store was constructed.
Constructed == sealed.op = "encrypt" /\ ~sealed.threw

\* C25: getApiKey() and getAppKey(), called with the key provider returning
\* the key it returned at construction, return the apiKey and the appKey
\* the store was constructed with; and encryptedKeys stays the envelope of
\* the construction, whatever is called.
C25_StoredKeysReturned ==
  /\ Constructed => envelope = sealed.envelope
  /\ (Constructed /\ got.op # "none" /\ got.key = secretKey) =>
       /\ ~got.threw
       /\ got.input = sealed.envelope
       /\ got.op = "getApiKey" => got.value = secrets.apiKey
       /\ got.op = "getAppKey" => got.value = secrets.appKey

\* C25 witness: getAppKey() returned an appKey with a character beyond
\* ASCII, of a store whose apiKey has a quote and a backslash.
C25_Witness ==
  /\ Constructed
  /\ got.op = "getAppKey"
  /\ got.key = secretKey
  /\ secrets.apiKey = <<"a","\"","b","\\","c">>
  /\ got.value = <<"c","l","<U+00E9>">>

====
